---- MODULE Spec2Model ----
(***************************************************************************)
(* A model of git_to_image: the image-generation layer (ImageGenerator,    *)
(* ImageToImageGenerator and the CLI wrapper around them), the entry       *)
(* points (main, interactive_mode, batch_mode, the web form) and the       *)
(* profile builder analyze_user_profile with its JSON cache.               *)
(***************************************************************************)
EXTENDS Integers, Sequences, FiniteSets, TLC

VARIABLES
    \* ---- image generation (image_generator.py, image_to_image_generator.py)
    available,      \* ImageGenerator.available
    i2iAvailable,   \* ImageToImageGenerator.available
    files,          \* prompt text files of generated_images/: [name, content]
    attempts,       \* the generate calls of the current (or last) operation
    nextSid,        \* counter behind generate_session_id (ids are unique)
    gpc,            \* the multi-image operation in progress, or "idle"
    todo,           \* the prompts the running operation still has to request
    gctx,           \* the running operation's arguments, session id and counts
    lastCall,       \* the last finished operation with its arguments and return
    calls,          \* number of operations started
    \* ---- analyze_user_profile and the profile cache (github_analyzer.py)
    apc,            \* position inside analyze_user_profile, or "idle" / "returned" / "loaded"
    anaUser,        \* its username argument
    anaData,        \* what the GitHub API holds for that user during this build
    faults,         \* API requests that have failed during this build
    executed,       \* the analysis functions called during this build
    parts,          \* the locals of analyze_user_profile: the results so far
    anaResult,      \* how analyze_user_profile ended: None, a profile, or an exception
    disk,           \* user_profile/: the content of <username>_profile.json
    loaded,         \* what load_existing_profile returned last
    builds,         \* number of analyze_user_profile calls started
    \* ---- one invocation after another (main.py: main, app.py: handle_generation)
    rpc,            \* position inside the running invocation, or "idle"
    run,            \* the invocation: its arguments, what it entered, how it ended
    env,            \* GITHUB_TOKEN and GEMINI_API_KEY: set or not
    mem,            \* the local variable profile of main / interactive_mode / batch_mode / handle_generation
    hist,           \* per user name: analyze_user_profile calls so far, and what the runs asked for
    runs,           \* number of invocations started
    \* ---- the functions on their own (prompt_generator.py, the scoring of github_analyzer.py)
    fin,            \* the function under evaluation and its arguments
    fout,           \* what its evaluations so far returned
    fnLocals        \* the local variables of a function evaluated step by step

genVars == <<available, i2iAvailable, files, attempts, nextSid, gpc, todo, gctx, lastCall, calls>>

anaVars == <<apc, anaUser, anaData, faults, executed, parts, anaResult, disk, loaded, builds>>

runVars == <<rpc, run, env, mem, hist, runs>>

fnVars == <<fin, fout, fnLocals>>

vars == <<genVars, anaVars, runVars, fnVars>>

\* ------------------------------------------------------------------ bounds

MaxCalls == 1
NumGivenSids == 1
MaxBuilds == 1
MaxFaults == 1
MaxCommits == 2
MaxRuns == 2
MaxEvaluations == 2
MaxRepos == 2
MaxListed == 12

\* ------------------------------------------------------------ Python values

\* A Python value carries its type: json.dump and the dict methods depend on it.
PyStr(s) == [py |-> "str", v |-> s]

PyInt(n) == [py |-> "int", v |-> n]

\* floats are kept in thousandths
PyFloat(m) == [py |-> "float", v |-> m]

PyBool(b) == [py |-> "bool", v |-> b]

PyNone == [py |-> "None"]

PyList(s) == [py |-> "list", v |-> s]

PyTuple(s) == [py |-> "tuple", v |-> s]

PyDict(f) == [py |-> "dict", v |-> f]

EmptyDict == PyDict(<<>>)

\* key in d
HasKey(d, k) == k \in DOMAIN d.v

\* d.get(k, default) for a dict d
DictGet(d, k, default) == IF HasKey(d, k) THEN d.v[k] ELSE default

\* bool(x) as "if not profile" takes it
Truthy(x) ==
    CASE x.py = "None" -> FALSE
      [] x.py = "dict" -> DOMAIN x.v # {}
      [] x.py \in {"list", "tuple"} -> Len(x.v) > 0
      [] x.py = "bool" -> x.v
      [] x.py = "str" -> x.v # ""
      [] OTHER -> x.v # 0

\* ---------------------------------------------------- json.dump / json.load

RECURSIVE JsonDump(_)
\* json.dump: dict -> object, list and tuple -> array, str -> string,
\* int and float -> number (a float keeps its fraction), bool, None -> null
JsonDump(x) ==
    CASE x.py = "dict" -> [js |-> "object", v |-> [k \in DOMAIN x.v |-> JsonDump(x.v[k])]]
      [] x.py \in {"list", "tuple"} -> [js |-> "array", v |-> [i \in 1..Len(x.v) |-> JsonDump(x.v[i])]]
      [] x.py = "str" -> [js |-> "string", v |-> x.v]
      [] x.py = "int" -> [js |-> "number", fraction |-> FALSE, v |-> x.v]
      [] x.py = "float" -> [js |-> "number", fraction |-> TRUE, v |-> x.v]
      [] x.py = "bool" -> [js |-> "boolean", v |-> x.v]
      [] OTHER -> [js |-> "null"]

RECURSIVE JsonLoad(_)
\* json.load: object -> dict, array -> list, number -> int or float
JsonLoad(j) ==
    CASE j.js = "object" -> PyDict([k \in DOMAIN j.v |-> JsonLoad(j.v[k])])
      [] j.js = "array" -> PyList([i \in 1..Len(j.v) |-> JsonLoad(j.v[i])])
      [] j.js = "string" -> PyStr(j.v)
      [] j.js = "number" -> (IF j.fraction THEN PyFloat(j.v) ELSE PyInt(j.v))
      [] j.js = "boolean" -> PyBool(j.v)
      [] OTHER -> PyNone

\* ------------------------------------------------------------ the cache file

Usernames == {"alice", "torvalds"}

AnalyzeUsernames == Usernames \cup {"Torvalds"}

\* str.lower() on the user names of the model
Lower(name) == IF name = "Torvalds" THEN "torvalds" ELSE name

NoFile == [kind |-> "absent"]

\* a file whose write stopped part-way
TruncatedFile == [kind |-> "truncated"]

JsonFile(text) == [kind |-> "json", text |-> text]

\* user_profile/<username>_profile.json, as analyze_user_profile names it
AnalyzerProfilePath(name) == <<"user_profile", name, "_profile.json">>

\* self.profile_dir / f"{username}_profile.json"
ProfilePath(name) == <<"user_profile", name, "_profile.json">>

ProfilePaths == {ProfilePath(u) : u \in AnalyzeUsernames}

\* A loader that never finds the cached file.
load_existing_profile_none(d, name) == PyNone

\* GitToImageCLI.load_existing_profile / GitToImageUI.load_existing_profile
load_existing_profile(d, name) ==
    LET f == d[ProfilePath(name)]
    IN  IF f.kind = "absent" THEN PyNone
        ELSE IF f.kind = "truncated" THEN PyNone      \* json.JSONDecodeError
        ELSE JsonLoad(f.text)

\* ------------------------------------------------ style_guide.py: the tables

TIME_STYLE_MAP ==
    [t \in {"Night Owl", "Day Coder", "Evening Coder", "Morning Coder"} |->
        CASE t = "Night Owl" -> [lighting |-> "moonlit with dark shadows",
                                 color_scheme |-> "dark blues and purples with neon highlights",
                                 atmosphere |-> "mysterious and focused"]
          [] t = "Day Coder" -> [lighting |-> "bright natural sunlight",
                                 color_scheme |-> "warm yellows and bright colors",
                                 atmosphere |-> "energetic and vibrant"]
          [] t = "Evening Coder" -> [lighting |-> "golden hour with warm shadows",
                                     color_scheme |-> "orange and warm tones",
                                     atmosphere |-> "calm and productive"]
          [] OTHER -> [lighting |-> "soft morning light",
                       color_scheme |-> "soft pastels and fresh colors",
                       atmosphere |-> "fresh and optimistic"]]

ACTIVITY_CHARACTER_MAP ==
    [a \in {"Highly Active", "Consistent", "Casual", "Sporadic"} |->
        CASE a = "Highly Active" -> <<"energetic", "dynamic", "powerful">>
          [] a = "Consistent" -> <<"steady", "reliable", "focused">>
          [] a = "Casual" -> <<"relaxed", "contemplative", "peaceful">>
          [] OTHER -> <<"mysterious", "spontaneous", "creative">>]

\* the initial style_elements; character, drawing_style and background are
\* random choices, given by StyleElementChoices
DefaultStyleElements ==
    [lighting |-> "natural lighting", color_scheme |-> "balanced colors",
     atmosphere |-> "focused", character_traits |-> <<>>]

\* The same function keeping its result in the dict it was given.
get_weighted_style_elements_memo(profile, randomness) ==
    IF DictGet(profile, "contribution_style", EmptyDict).py # "dict"
    THEN [raised |-> TRUE, style |-> DefaultStyleElements, profile |-> profile]
    ELSE [raised |-> FALSE, style |-> DefaultStyleElements,
          profile |-> PyDict([k \in {"style_elements"} |-> PyStr("memo")] @@ profile.v)]

\* get_weighted_style_elements(profile, randomness): the returned dict, or the
\* AttributeError of .get on a contribution_style that is a str; and the
\* profile argument as the call leaves it (it is read with .get and [] only).
get_weighted_style_elements(profile, randomness) ==
    LET contribution_style == DictGet(profile, "contribution_style", EmptyDict)
        commit_cadence == DictGet(profile, "commit_cadence", EmptyDict)
        time_of_day == DictGet(commit_cadence, "time_of_day", PyNone)
        activity_level == DictGet(commit_cadence, "activity_level", PyNone)
        timed == IF time_of_day.py = "str" /\ time_of_day.v \in DOMAIN TIME_STYLE_MAP
                 THEN [DefaultStyleElements EXCEPT
                          !.lighting = TIME_STYLE_MAP[time_of_day.v].lighting,
                          !.color_scheme = TIME_STYLE_MAP[time_of_day.v].color_scheme,
                          !.atmosphere = TIME_STYLE_MAP[time_of_day.v].atmosphere]
                 ELSE DefaultStyleElements
        traited == IF activity_level.py = "str" /\ activity_level.v \in DOMAIN ACTIVITY_CHARACTER_MAP
                   THEN [timed EXCEPT !.character_traits = ACTIVITY_CHARACTER_MAP[activity_level.v]]
                   ELSE timed
    IN  IF contribution_style.py # "dict"
        THEN [raised |-> TRUE, style |-> DefaultStyleElements, profile |-> profile]
        ELSE [raised |-> FALSE, style |-> traited, profile |-> profile]

\* The character, drawing style and background get_weighted_style_elements can
\* return: each is a random.choice from the list its table gives for the
\* profile (the whole list when the table has no entry), and when
\* random.random() < randomness one of the three is chosen again from the
\* whole list.  The tables hold the rows of the profiles analysed here.
StyleElementChoices(profile, randomness) ==
    LET ANIMAL_CHARACTERS ==
            {"Majestic Bear", "Wise Owl", "Industrious Beaver", "Cunning Fox", "Agile Octopus",
             "Loyal Wolf", "Meticulous Hummingbird", "Playful Otter", "GitHub Octopus",
             "Elegant Cat", "Curious Raccoon", "Noble Eagle"}
        DRAWING_STYLES ==
            {"1980s retro wave", "Futuristic cyberpunk", "Chinese ink wash painting",
             "Steampunk mechanical", "Minimalist line art", "Vibrant pop art",
             "Dark fantasy concept art", "Blueprint schematic", "Watercolor illustration",
             "Digital pixel art"}
        BACKGROUND_ENVIRONMENTS ==
            {"A server room with glowing racks", "A digital forest with flowing data streams",
             "A library of ancient code scrolls", "A futuristic city skyline",
             "A workshop filled with gears and circuits",
             "An abstract representation of a neural network",
             "A cozy home office with multiple monitors", "A minimalist workspace with clean lines",
             "A cyberpunk alleyway with neon signs", "A peaceful garden with geometric patterns"}
        CONTRIBUTION_CHARACTER_MAP ==
            [c \in {"Solo Creator", "Collaborator"} |->
                IF c = "Solo Creator" THEN {"Wise Owl", "Majestic Bear", "Noble Eagle"}
                ELSE {"Playful Otter", "Loyal Wolf", "GitHub Octopus"}]
        LANGUAGE_STYLE_MAP ==
            [l \in {"Python", "C"} |->
                IF l = "Python" THEN {"Futuristic cyberpunk", "Minimalist line art", "Digital pixel art"}
                ELSE {"1980s retro wave", "Blueprint schematic", "Steampunk mechanical"}]
        DOMAIN_BACKGROUND_MAP ==
            [d \in {"Web Backend"} |->
                {"A server room with glowing racks", "A workshop filled with gears and circuits",
                 "A cyberpunk alleyway with neon signs"}]
        contribution_style == DictGet(DictGet(profile, "contribution_style", EmptyDict), "primary_style", PyNone)
        language_profile == DictGet(profile, "language_profile", EmptyDict)
        primary_language == CHOOSE l \in DOMAIN language_profile.v :
                                \A k \in DOMAIN language_profile.v : language_profile.v[k].v <= language_profile.v[l].v
        domain_focus == DictGet(profile, "domain_focus", PyList(<<>>))
        characters == IF Truthy(contribution_style) /\ contribution_style.v \in DOMAIN CONTRIBUTION_CHARACTER_MAP
                      THEN CONTRIBUTION_CHARACTER_MAP[contribution_style.v] ELSE ANIMAL_CHARACTERS
        styles == IF Truthy(language_profile) /\ primary_language \in DOMAIN LANGUAGE_STYLE_MAP
                  THEN LANGUAGE_STYLE_MAP[primary_language] ELSE DRAWING_STYLES
        backgrounds == IF Truthy(domain_focus) /\ domain_focus.v[1].v \in DOMAIN DOMAIN_BACKGROUND_MAP
                       THEN DOMAIN_BACKGROUND_MAP[domain_focus.v[1].v] ELSE BACKGROUND_ENVIRONMENTS
        Elements(cs, ds, bs) == [character : cs, drawing_style : ds, background : bs]
    IN  Elements(characters, styles, backgrounds)
        \cup (IF randomness > 0
              THEN Elements(ANIMAL_CHARACTERS, styles, backgrounds)
                   \cup Elements(characters, DRAWING_STYLES, backgrounds)
                   \cup Elements(characters, styles, BACKGROUND_ENVIRONMENTS)
              ELSE {})

\* The profile dict after generate_multi_style_prompts, generate_image_to_image_prompt
\* (through get_enhanced_style_elements) or create_custom_style_prompt was given
\* it: each hands it to get_weighted_style_elements and reads it otherwise.
TemplatedProfile(profile) == get_weighted_style_elements(profile, 0).profile

\* ----------------------------------------------------- prompt_generator.py

LinusPrompt == PyStr(<<"Create a legendary portrait", "Photorealistic portrait style">>)

\* generate_image_prompt(profile, randomness=...): the text is kept as the
\* fields that go into the f-string
generate_image_prompt(profile, randomness) ==
    LET w == get_weighted_style_elements(profile, randomness)
    IN  IF w.raised THEN [raised |-> TRUE, prompt |-> PyNone]
        ELSE IF Truthy(DictGet(profile, "is_legend", PyNone))
        THEN [raised |-> FALSE, prompt |-> LinusPrompt]
        ELSE [raised |-> FALSE,
              prompt |-> PyStr(<<"Create a", w.style.character_traits, w.style.lighting,
                                 w.style.color_scheme, w.style.atmosphere, randomness>>)]

\* randomness_levels = [0.0, 0.15, 0.3], in thousandths
RandomnessLevels == <<0, 150, 300>>

create_prompt_variations(profile) ==
    PyList([i \in 1..3 |->
        PyDict([variation |-> PyInt(i),
                randomness_level |-> PyFloat(RandomnessLevels[i]),
                prompt |-> generate_image_prompt(profile, RandomnessLevels[i]).prompt])])

\* ------------------------------------------- github_analyzer.py: the inputs

DaysWindow == 90

RECURSIVE SumSeq(_)
SumSeq(q) == IF q = <<>> THEN 0 ELSE Head(q) + SumSeq(Tail(q))

RECURSIVE SumSquares(_)
SumSquares(q) == IF q = <<>> THEN 0 ELSE Head(q) * Head(q) + SumSquares(Tail(q))

\* round(a / b * 1000): a quotient in thousandths
Thousandths(a, b) == (2000 * a + b) \div (2 * b)

\* the user's commits of the window, per active day
DailyChoices ==
    {d \in UNION {[1..n -> 1..MaxCommits] : n \in 0..MaxCommits} : SumSeq(d) <= MaxCommits}

\* what the API answers for a user: whether the account exists, whether it has
\* a repository updated inside the window, and the commits in it
UserData ==
    {[exists |-> FALSE, active |-> FALSE, daily |-> <<>>],
     [exists |-> TRUE, active |-> FALSE, daily |-> <<>>]}
    \cup {[exists |-> TRUE, active |-> TRUE, daily |-> d] : d \in DailyChoices}

\* A failing API request during one sub-analysis: "listing" is the paginated
\* user.get_repos() iteration, "inner" a request about one repository
\* (get_languages, get_readme, Gemini, get_commits, get_pulls), "names" the
\* get_repos()[:10] of the argument list of get_commit_cadence.
Raised == [raised |-> TRUE, value |-> PyNone]

Returned(x) == [raised |-> FALSE, value |-> x]

\* ------------------------------------- github_analyzer.py: the scoring rules

\* The maximum taken over the labels as an unordered collection.
MaxByKey_unordered(scores) ==
    {scores[i][1] : i \in {k \in 1..Len(scores) : \A j \in 1..Len(scores) : scores[j][2] <= scores[k][2]}}

\* The label of the lowest score instead of the highest.
MaxByKey_lowest(scores) ==
    {scores[CHOOSE i \in 1..Len(scores) : \A j \in 1..Len(scores) : scores[i][2] <= scores[j][2]][1]}

\* max(style_scores, key=style_scores.get): the dict is walked in insertion
\* order and a later equal score does not replace the first maximum.  The
\* result is the set of labels the call can return.
MaxByKey(scores) ==
    LET best == CHOOSE i \in 1..Len(scores) :
                    /\ \A j \in 1..Len(scores) : scores[j][2] <= scores[i][2]
                    /\ \A j \in 1..(i - 1) : scores[j][2] < scores[i][2]
    IN  {scores[best][1]}

\* the style_scores of get_contribution_style, in thousandths, in the order
\* the keys are inserted; avg_commit_size in tenths, the conventional-commit
\* ratio in thousandths
style_scores(m) ==
    LET Min(a, b) == IF a <= b THEN a ELSE b
        Abs(a) == IF a < 0 THEN 0 - a ELSE a
        total == IF m.total_repos > 1 THEN m.total_repos ELSE 1
        solo_score == (m.own_repos * 700) \div total + ((total - m.fork_repos) * 300) \div total
        collaborator_score == (m.fork_repos * 600) \div total + (Min(m.total_commits * 20, 1000) * 4) \div 10
        architect_score == (Min(m.avg_commit_size * 20, 1000) * 4) \div 10
                           + (Min(m.avg_msg_length * 20, 1000) * 3) \div 10
                           + (m.conventional * 3) \div 10
        refined_score == (m.conventional * 6) \div 10
                         + ((1000 - Abs(m.avg_commit_size - 30) * 10) * 4) \div 10
    IN  <<<<"Solo Creator", solo_score>>, <<"Collaborator", collaborator_score>>,
          <<"Architect", architect_score>>, <<"Refined Developer", refined_score>>>>

\* the creator_type of analyze_code_originality; "" stands for the {} it
\* returns when no repository counts
creator_type(m) ==
    LET total_repos == m.owned_repos + m.contributed_repos
    IN  IF total_repos = 0 THEN ""
        ELSE IF 10 * m.created_from_scratch > 7 * total_repos /\ 10 * m.owned_repos > 6 * total_repos
        THEN "Visionary Founder"
        ELSE IF 10 * m.created_from_scratch > 4 * total_repos /\ 10 * m.owned_repos > 4 * total_repos
        THEN "Project Creator"
        ELSE IF 10 * m.owned_repos > 6 * total_repos THEN "Repository Owner"
        ELSE IF m.contributed_repos > m.owned_repos * 2 THEN "Community Contributor"
        ELSE "Balanced Developer"

\* the primary_focus of classify_frontend_backend_focus from the three
\* weighted scores; "" stands for the {} of a zero total
primary_focus(m) ==
    LET total_score == m.frontend_score + m.backend_score + m.fullstack_score
    IN  IF total_score = 0 THEN ""
        ELSE IF 10 * m.frontend_score > 5 * total_score THEN "Frontend"
        ELSE IF 10 * m.backend_score > 5 * total_score THEN "Backend"
        ELSE IF 10 * m.fullstack_score > 3 * total_score THEN "Full-stack"
        ELSE IF m.frontend_score > m.backend_score THEN "Frontend-leaning"
        ELSE "Backend-leaning"

\* classify_pr_type(pr): title holds the keyword groups found in the title,
\* files the counts over the first ten files, or the request for them fails
classify_pr_type(pr) ==
    IF "feature" \in pr.title THEN "feature"
    ELSE IF "fix" \in pr.title THEN "fix"
    ELSE IF "docs" \in pr.title THEN "docs"
    ELSE IF "test" \in pr.title THEN "test"
    ELSE IF pr.files_fail THEN "other"
    ELSE IF 10 * pr.doc_files > 5 * pr.files THEN "docs"
    ELSE IF 10 * pr.test_files > 3 * pr.files THEN "test"
    ELSE "other"

\* ------------------------------------------------------- the sub-analyses

\* no try block at all
get_language_distribution(data, fault) ==
    IF fault # "none" THEN Raised
    ELSE IF data.active THEN Returned(PyDict([Python |-> PyFloat(100000)]))
    ELSE Returned(EmptyDict)

\* the repository loop is outside the try; README and Gemini errors are caught
get_area_of_focus(data, fault) ==
    LET info(repos, readmes, gemini) ==
            PyDict([gemini_calls |-> PyInt(gemini), total_tokens |-> PyInt(gemini * 400),
                    estimated_cost |-> PyFloat(0), repos_analyzed |-> PyInt(repos),
                    readmes_processed |-> PyInt(readmes)])
    IN  IF fault = "listing" THEN Raised
        ELSE IF ~data.active THEN Returned(PyTuple(<<PyList(<<>>), info(0, 0, 0)>>))
        ELSE IF fault = "inner" THEN Returned(PyTuple(<<PyList(<<>>), info(1, 0, 0)>>))
        ELSE Returned(PyTuple(<<PyList(<<PyStr("Web Backend")>>), info(1, 1, 1)>>))

\* the repository loop is outside the try; get_commits errors are caught
get_contribution_style(data, fault) ==
    LET commits == IF data.active /\ fault = "none" THEN SumSeq(data.daily) ELSE 0
        repos == IF data.active THEN 1 ELSE 0
    IN  IF fault = "listing" THEN Raised
        ELSE Returned(PyDict([primary_style |-> PyStr("Solo Creator"),
                              metrics |-> PyDict([total_commits |-> PyInt(commits),
                                                  total_repos |-> PyInt(repos),
                                                  own_repos |-> PyInt(repos),
                                                  fork_repos |-> PyInt(0)])]))

\* the repository loop is outside the try; get_commits errors are caught
get_commit_cadence(data, fault) ==
    LET daily_commits == IF data.active /\ fault = "none" THEN data.daily ELSE <<>>
        total_commits == SumSeq(daily_commits)
        active_days == Len(daily_commits)
        variance_den == active_days * SumSquares(daily_commits) - total_commits * total_commits
        consistency == IF active_days > 1
                       THEN Thousandths(active_days * active_days, active_days * active_days + variance_den)
                       ELSE 500
    IN  IF fault = "listing" THEN Raised
        ELSE IF daily_commits = <<>>
        THEN Returned(PyDict([frequency |-> PyInt(0), consistency |-> PyInt(0), total_commits |-> PyInt(0)]))
        ELSE Returned(PyDict([frequency |-> PyFloat(Thousandths(total_commits, DaysWindow)),
                              consistency |-> PyFloat(consistency),
                              total_commits |-> PyInt(total_commits),
                              active_days |-> PyInt(active_days)]))

\* everything inside one try: an error gives {}
analyze_code_originality(data, fault) ==
    IF fault # "none" \/ ~data.active THEN Returned(EmptyDict)
    ELSE Returned(PyDict([creator_type |-> PyStr("Visionary Founder"), owned_repos |-> PyInt(1),
                          originality_score |-> PyFloat(1000)]))

\* the dict detect_high_profile_contributions returns for the repositories
\* of user.get_repos(): a repository named after a framework is recorded
\* under the framework (a later one replaces an earlier one), each adds its
\* impact score (thousandths)
HighProfileAnalysis(repos) ==
    LET \* HIGH_PROFILE_FRAMEWORKS: the impact of the frameworks used here
        FrameworkImpact == [pytorch |-> "legendary", xgboost |-> "high"]
        matched == {i \in 1..Len(repos) : repos[i].name \in DOMAIN FrameworkImpact}
        frameworks == {repos[i].name : i \in matched}
        last(f) == CHOOSE i \in matched : repos[i].name = f /\ \A j \in matched : repos[j].name = f => j <= i
        impact_multiplier(f) == IF FrameworkImpact[f] = "legendary" THEN 10 ELSE 5
        repo_impact(i) == impact_multiplier(repos[i].name) * (1000 + repos[i].stars + 10 * repos[i].forks)
        Count(level) == Cardinality({f \in frameworks : FrameworkImpact[f] = level})
    IN  PyDict([contributions |->
                    PyDict([f \in frameworks |->
                        PyDict([repo_name |-> PyStr(f), impact_level |-> PyStr(FrameworkImpact[f]),
                                stars |-> PyInt(repos[last(f)].stars), forks |-> PyInt(repos[last(f)].forks),
                                impact_score |-> PyFloat(repo_impact(last(f)))])]),
                total_impact_score |->
                    IF matched = {} THEN PyInt(0)
                    ELSE PyFloat(SumSeq([i \in 1..Len(repos) |-> IF i \in matched THEN repo_impact(i) ELSE 0])),
                legendary_count |-> PyInt(Count("legendary")),
                high_count |-> PyInt(Count("high"))])

\* everything inside one try: an error keeps what was collected; the users
\* of the analysis have no repository named after a framework
detect_high_profile_contributions(data, fault) == Returned(HighProfileAnalysis(<<>>))

\* everything inside one try: an error gives {}
classify_frontend_backend_focus(data, fault) ==
    IF fault # "none" \/ ~data.active THEN Returned(EmptyDict)
    ELSE Returned(PyDict([primary_focus |-> PyStr("Backend"), total_analyzed |-> PyInt(1)]))

\* everything inside one try: an error keeps the counters reached so far
analyze_pull_requests(data, fault) ==
    LET created == IF data.active /\ fault = "none" THEN 1 ELSE 0
    IN  Returned(PyDict([total_prs_created |-> PyInt(created), total_prs_reviewed |-> PyInt(0),
                         archetype_indicators |-> PyList(<<>>)]))

\* everything inside one try: an error keeps the defaults
analyze_code_style_from_commits(data, fault) ==
    IF fault # "none" \/ ~data.active
    THEN Returned(PyDict([style_classification |-> PyStr("unknown"), confidence |-> PyFloat(0),
                          analyzed_commits |-> PyInt(0), sample_languages |-> PyList(<<>>)]))
    ELSE Returned(PyDict([style_classification |-> PyStr("robust_foundational"), confidence |-> PyFloat(500),
                          analyzed_commits |-> PyInt(1), sample_languages |-> PyList(<<PyStr("Python")>>)]))

\* ------------------------------------------------- analyze_user_profile

\* the sub-analyses in the order analyze_user_profile calls them, by the
\* profile key that receives the result
AnalysisOrder ==
    <<"language_profile", "domain_focus", "contribution_style", "commit_cadence",
      "originality_analysis", "high_profile_contributions", "frontend_backend_focus",
      "collaboration_profile", "code_style_profile">>

AnalysisKeys == {AnalysisOrder[i] : i \in 1..Len(AnalysisOrder)}

AnalysisFunction ==
    [k \in AnalysisKeys |->
        CASE k = "language_profile" -> "get_language_distribution"
          [] k = "domain_focus" -> "get_area_of_focus"
          [] k = "contribution_style" -> "get_contribution_style"
          [] k = "commit_cadence" -> "get_commit_cadence"
          [] k = "originality_analysis" -> "analyze_code_originality"
          [] k = "high_profile_contributions" -> "detect_high_profile_contributions"
          [] k = "frontend_backend_focus" -> "classify_frontend_backend_focus"
          [] k = "collaboration_profile" -> "analyze_pull_requests"
          [] OTHER -> "analyze_code_style_from_commits"]

RunAnalysis(key, data, fault) ==
    CASE key = "language_profile" -> get_language_distribution(data, fault)
      [] key = "domain_focus" -> get_area_of_focus(data, fault)
      [] key = "contribution_style" -> get_contribution_style(data, fault)
      [] key = "commit_cadence" -> get_commit_cadence(data, fault)
      [] key = "originality_analysis" -> analyze_code_originality(data, fault)
      [] key = "high_profile_contributions" -> detect_high_profile_contributions(data, fault)
      [] key = "frontend_backend_focus" -> classify_frontend_backend_focus(data, fault)
      [] key = "collaboration_profile" -> analyze_pull_requests(data, fault)
      [] OTHER -> analyze_code_style_from_commits(data, fault)

\* the requests that can fail in the step for this key
FaultsOf(key, data, used) ==
    {"none"} \cup (IF used < MaxFaults
                   THEN {"listing"} \cup (IF data.active THEN {"inner"} ELSE {})
                        \cup (IF key = "commit_cadence" THEN {"names"} ELSE {})
                   ELSE {})

KeyAfter(key) ==
    LET i == CHOOSE j \in 1..Len(AnalysisOrder) : AnalysisOrder[j] = key
    IN  IF i < Len(AnalysisOrder) THEN AnalysisOrder[i + 1] ELSE "image_prompts"

\* The assignment without the unpacking: domain_focus keeps the whole tuple.
UnpackAreaOfFocus_keep_tuple(t) == [domain_focus |-> t, debug_info |-> t.v[2]]

\* domain_focus, debug_info = get_area_of_focus(...)
UnpackAreaOfFocus(t) == [domain_focus |-> t.v[1], debug_info |-> t.v[2]]

\* The pre-defined branch taken for every user.
IsLegend_everyone(name) == TRUE

\* if username.lower() == 'torvalds'
IsLegend(name) == Lower(name) = "torvalds"

LegendProfile ==
    LET base == PyDict([username |-> PyStr("torvalds"),
                        is_legend |-> PyBool(TRUE),
                        analysis_type |-> PyStr("pre-defined"),
                        language_profile |-> PyDict([C |-> PyFloat(100000)]),
                        domain_focus |-> PyList(<<PyStr("Operating Systems Kernel")>>),
                        contribution_style |-> PyStr("Benevolent Dictator for Life"),
                        commit_cadence |-> PyDict([activity_level |-> PyStr("God-Tier"),
                                                   time_of_day |-> PyStr("All the time")])])
        variations == PyList([i \in 1..3 |->
                          PyDict([variation |-> PyInt(i),
                                  randomness_level |-> PyFloat(RandomnessLevels[i]),
                                  prompt |-> PyStr(<<"Create a legendary portrait", "replaced", i>>)])])
    IN  PyDict(base.v @@ [image_prompts |-> PyDict([main_prompt |-> LinusPrompt, variations |-> variations])])

\* temp_profile = {...}
TempProfile(name, stamp, p) ==
    PyDict([username |-> PyStr(name),
            last_updated |-> PyStr(<<"utcnow", stamp>>),
            analysis_parameters |-> PyDict([days_window |-> PyInt(DaysWindow)])]
           @@ [k \in AnalysisKeys |-> p[k]])

\* profile = {...}: the same entries, image_prompts and debug_info
FullProfile(name, stamp, p) ==
    LET temp_profile == TempProfile(name, stamp, p)
    IN  PyDict(temp_profile.v
               @@ [image_prompts |-> PyDict([main_prompt |-> generate_image_prompt(temp_profile, 100).prompt,
                                             variations |-> create_prompt_variations(temp_profile)]),
                   debug_info |-> p["debug_info"]])

\* the results of the nine calls when no request fails
AnalysisParts(data) ==
    LET area == UnpackAreaOfFocus(get_area_of_focus(data, "none").value)
    IN  [k \in AnalysisKeys \cup {"debug_info"} |->
            IF k = "domain_focus" THEN area.domain_focus
            ELSE IF k = "debug_info" THEN area.debug_info
            ELSE RunAnalysis(k, data, "none").value]

\* the profile analyze_user_profile(name, ...) builds when no request fails
BuiltProfile(name, stamp, data) ==
    IF IsLegend(name) THEN LegendProfile ELSE FullProfile(name, stamp, AnalysisParts(data))

\* an account with one repository and one commit inside the window
TypicalUser == [exists |-> TRUE, active |-> TRUE, daily |-> <<1>>]

NoResult == [kind |-> "none", at |-> "", profile |-> PyNone]

NotLoaded == [username |-> "", profile |-> PyNone]

\* ------------------------------------------------------------- value sets

\* session_id = None
SessionNone == <<>>

\* session ids a caller passes in: None or an id made earlier
GivenSessions == {SessionNone} \cup {<<n>> : n \in 1..NumGivenSids}

\* the profiles handed to the generators: what analyze_user_profile returns
GenProfiles == {BuiltProfile(u, 1, TypicalUser) : u \in Usernames}

\* profile.get('username', ...)
UsernameOf(profile) == DictGet(profile, "username", PyStr("unknown")).v

\* profile['image_prompts']['main_prompt']
MainPrompt(profile) == profile.v["image_prompts"].v["main_prompt"]

\* the prompt of each entry of profile['image_prompts']['variations']
VariationPrompts(profile) ==
    LET variations == DictGet(profile.v["image_prompts"], "variations", PyList(<<>>)).v
    IN  [i \in 1..Len(variations) |-> DictGet(variations[i], "prompt", PyStr(""))]

\* prompt and file name as the callers of GitToImageCLI.generate_image pair them
CallArgs == {[prompt |-> MainPrompt(p), filename |-> <<UsernameOf(p), "main">>] : p \in GenProfiles}

NoCall == [op |-> "none", prompt |-> PyNone, filename |-> <<>>, sid |-> SessionNone, ret |-> "none"]

\* ------------------------------------------------------------- file system

\* <session_id>_<filename>_prompt.txt
PromptFileName(sid, filename) == <<sid, filename, "prompt.txt">>

\* open(path, 'w') followed by the writes: replaces the file's content
WriteFile(fs, name, content) == {f \in fs : f.name # name} \cup {[name |-> name, content |-> content]}

\* ------------------------------------------- ImageGenerator.generate_image

GenOutcomes == {"api_error", "no_image", "save_error", "ok"}

\* Returns (success, ...) and the files it wrote.  freshUsed is 1 when it had
\* to make a session id of its own.
IG_generate_image(avail, fs, prompt, filename, session_id, fresh, outcome) ==
    IF ~avail
    THEN [success |-> FALSE, files |-> fs, freshUsed |-> 0, requested |-> FALSE]
    ELSE LET sid == IF session_id = SessionNone THEN <<fresh>> ELSE session_id
             used == IF session_id = SessionNone THEN 1 ELSE 0
         IN  IF outcome = "ok"
             THEN [success |-> TRUE,
                   files |-> WriteFile(fs, PromptFileName(sid, filename), prompt),
                   freshUsed |-> used, requested |-> TRUE]
             ELSE [success |-> FALSE, files |-> fs, freshUsed |-> used, requested |-> TRUE]

\* ------------------------------------ GitToImageCLI.save_prompt_fallback

FallbackOutcomes == {"written", "open_fails", "write_fails"}

save_prompt_fallback(fs, prompt, filename, session_id, fresh, fb) ==
    LET sid == IF session_id = SessionNone THEN <<fresh>> ELSE session_id
        used == IF session_id = SessionNone THEN 1 ELSE 0
        name == PromptFileName(sid, filename)
    IN  [files |-> CASE fb = "written" -> WriteFile(fs, name, prompt)
                     [] fb = "write_fails" -> WriteFile(fs, name, PyStr(<<"truncated">>))
                     [] OTHER -> fs,
         raised |-> (fb # "written"),
         sid |-> sid,
         freshUsed |-> used]

\* --------------------------------------- GitToImageCLI.generate_image

\* The else branch of the try block without its fallback.
CLI_failure_branch_no_fallback(fs, prompt, filename, session_id, fresh, fb) ==
    [files |-> fs, raised |-> FALSE, sid |-> session_id, freshUsed |-> 0]

\* The else branch of the try block: the fallback, inside the try.
CLI_failure_branch(fs, prompt, filename, session_id, fresh, fb) ==
    save_prompt_fallback(fs, prompt, filename, session_id, fresh, fb)

\* tryRaises: an exception raised inside the try block by something other
\* than the fallback (the generator call or a print).  fb1, fb2: what the
\* fallback does in the else branch and in the except branch.
CLI_generate_image(avail, fs, prompt, filename, session_id, fresh, outcome, tryRaises, fb1, fb2) ==
    LET ig == IG_generate_image(avail, fs, prompt, filename, session_id, fresh, outcome)
        f1 == fresh + ig.freshUsed
        inElse == ~ig.success /\ ~tryRaises
        e == CLI_failure_branch(ig.files, prompt, filename, session_id, f1, fb1)
        f2 == IF inElse THEN f1 + e.freshUsed ELSE f1
        x == save_prompt_fallback(IF inElse THEN e.files ELSE ig.files,
                                  prompt, filename, session_id, f2, fb2)
    IN  IF ig.success /\ ~tryRaises
        THEN [ret |-> "True", files |-> ig.files, fresh |-> f1, sid |-> session_id,
              success |-> ig.success, requested |-> ig.requested]
        ELSE IF inElse /\ ~e.raised
        THEN [ret |-> "False", files |-> e.files, fresh |-> f2, sid |-> e.sid,
              success |-> ig.success, requested |-> ig.requested]
        ELSE IF ~x.raised
        THEN [ret |-> "False", files |-> x.files, fresh |-> f2 + x.freshUsed, sid |-> x.sid,
              success |-> ig.success, requested |-> ig.requested]
        ELSE [ret |-> "raised", files |-> x.files, fresh |-> f2 + x.freshUsed, sid |-> x.sid,
              success |-> ig.success, requested |-> ig.requested]

\* ---------------- ImageToImageGenerator.generate_profile_based_portrait

TransformationModes == <<"tech_enhancement", "character_fusion", "artistic_transformation">>

StyleModes == {"tech_enhancement", "character_fusion", "artistic_transformation", "fusion"}

I2IOutcomes == {"read_error", "api_error", "no_image", "ok"}

\* generate_image_to_image_prompt goes through get_enhanced_style_elements and
\* get_weighted_style_elements, which calls .get on contribution_style: a
\* string in the pre-defined legend profile, so the call raises there.
I2IPromptRaises(profile) == get_weighted_style_elements(profile, 0).raised

I2IPrompt(profile, style_mode) == PyStr(<<"image_to_image", UsernameOf(profile), style_mode>>)

I2I_generate_profile_based_portrait(avail, fs, profile, style_mode, session_id, fresh, outcome) ==
    IF ~avail
    THEN [success |-> FALSE, files |-> fs, freshUsed |-> 0, requested |-> FALSE]
    ELSE LET sid == IF session_id = SessionNone THEN <<fresh>> ELSE session_id
             used == IF session_id = SessionNone THEN 1 ELSE 0
             name == PromptFileName(sid, <<UsernameOf(profile), style_mode>>)
             prompt == I2IPrompt(profile, style_mode)
         IN  IF I2IPromptRaises(profile) \/ outcome = "read_error"
             THEN [success |-> FALSE, files |-> fs, freshUsed |-> used, requested |-> FALSE]
             ELSE IF outcome = "api_error"
             THEN [success |-> FALSE, files |-> fs, freshUsed |-> used, requested |-> TRUE]
             ELSE [success |-> (outcome = "ok"), files |-> WriteFile(fs, name, prompt),
                   freshUsed |-> used, requested |-> TRUE]

\* ------------------------------------------- generate_multi_style_prompts

StyleTemplates == <<"Professional Portrait", "Artistic Creative", "Technical Schematic", "Minimalist Abstract">>

\* len(seq[:n]) for a Python slice
SliceLen(len, n) == IF n >= 0 THEN (IF n < len THEN n ELSE len) ELSE (IF len + n > 0 THEN len + n ELSE 0)

\* get_weighted_style_elements(profile, 0.0) is its first statement
MultiStyleRaises(profile) == get_weighted_style_elements(profile, 0).raised

\* classify_developer_category(profile): 'legendary' in impact_level and
\* 'frontend' / 'backend' / 'full' in primary_focus.lower() are substring tests
classify_developer_category(profile) ==
    LET high_profile == DictGet(profile, "high_profile_contributions", EmptyDict)
        legendary_frameworks == DictGet(high_profile, "frameworks_contributed", PyList(<<>>))
        fb_focus == DictGet(profile, "frontend_backend_focus", EmptyDict)
        focus == DictGet(fb_focus, "primary_focus", PyStr("")).v
    IN  IF /\ Truthy(high_profile)
           /\ Truthy(DictGet(high_profile, "has_high_profile_contributions", PyBool(FALSE)))
           /\ \E i \in 1..Len(legendary_frameworks.v) :
                 DictGet(legendary_frameworks.v[i], "impact_level", PyStr("")).v = "legendary"
        THEN "legendary"
        ELSE IF focus \in {"Frontend", "Frontend-leaning"} THEN "frontend"
        ELSE IF focus \in {"Backend", "Backend-leaning"} THEN "backend"
        ELSE IF focus = "Full-stack" THEN "fullstack"
        ELSE "specialist"

generate_multi_style_prompts(profile, num_variations) ==
    LET \* apply_developer_category_styling: the prompt function the category selects
        apply_developer_category_styling(dev_category) ==
            CASE dev_category = "legendary" -> "create_legendary_contributor_prompt"
              [] dev_category = "frontend" -> "create_frontend_specialist_prompt"
              [] dev_category = "backend" -> "create_backend_engineer_prompt"
              [] OTHER -> "create_general_developer_prompt"
    IN
    [i \in 1..SliceLen(Len(StyleTemplates), num_variations) |->
        [variation |-> i, style_name |-> StyleTemplates[i],
         dev_category |-> classify_developer_category(profile),
         prompt |-> PyStr(<<apply_developer_category_styling(classify_developer_category(profile)),
                            UsernameOf(profile), StyleTemplates[i]>>)]]

\* --num-styles is an unchecked int (main); the interactive menu clamps to 1..8
NumStylesChoices == (0 - 1)..5

\* ----------------------------------------------------------------- actions

NoContext == [sid |-> SessionNone, success_count |-> 0, total |-> 0, profile |-> PyNone, num_styles |-> 0]

GenInit ==
    /\ available \in BOOLEAN
    /\ i2iAvailable \in BOOLEAN
    /\ available => i2iAvailable      \* both need GEMINI_API_KEY
    /\ files = {}
    /\ attempts = {}
    /\ nextSid = NumGivenSids + 1
    /\ gpc = "idle"
    /\ todo = <<>>
    /\ gctx = NoContext
    /\ lastCall = NoCall
    /\ calls = 0

Attempt(op, prompt, filename, r) == [op |-> op, prompt |-> prompt, filename |-> filename, success |-> r.success, requested |-> r.requested]

\* What the API and the file system do during one GitToImageCLI.generate_image:
\* a fallback that is not reached has no outcome of its own.
CLICallChoices ==
    {c \in [outcome : GenOutcomes, tryRaises : BOOLEAN, fb1 : FallbackOutcomes, fb2 : FallbackOutcomes] :
        /\ (c.tryRaises \/ c.outcome = "ok") => c.fb1 = "written"
        /\ (~c.tryRaises /\ (c.outcome = "ok" \/ c.fb1 = "written")) => c.fb2 = "written"}

\* GitToImageCLI.generate_image(prompt, filename, session_id)
CLIGenerateImageCall(prompt, filename, session_id, fresh, c) ==
    LET r == CLI_generate_image(available, files, prompt, filename, session_id, fresh,
                                c.outcome, c.tryRaises, c.fb1, c.fb2)
    IN  /\ files' = r.files
        /\ nextSid' = r.fresh
        /\ attempts' = {Attempt("generate_image", prompt, filename, r)}
        /\ lastCall' = [op |-> "generate_image", prompt |-> prompt, filename |-> filename, sid |-> r.sid, ret |-> r.ret]
        /\ UNCHANGED <<available, i2iAvailable, gpc, todo, gctx>>

\* GitToImageCLI.generate_image(prompt, filename, session_id)
CLIGenerateImage ==
    /\ gpc = "idle"
    /\ calls < MaxCalls
    /\ \E a \in CallArgs, session_id \in GivenSessions, c \in CLICallChoices :
          CLIGenerateImageCall(a.prompt, a.filename, session_id, nextSid, c)
    /\ calls' = calls + 1
    /\ UNCHANGED <<anaVars, runVars, fnVars>>

\* ImageGenerator.generate_multiple_images(prompts, base_filename, session_id), up to its loops
MultipleImagesBegin(prompts, base_filename, session_id, fresh) ==
    LET variations == IF HasKey(prompts, "variations") THEN prompts.v["variations"].v ELSE <<>>
    IN  /\ todo' = (IF HasKey(prompts, "main_prompt")
                    THEN <<[prompt |-> prompts.v["main_prompt"], filename |-> <<base_filename, "main">>]>>
                    ELSE <<>>)
                   \o [i \in 1..Len(variations) |->
                          [prompt |-> DictGet(variations[i], "prompt", PyStr("")),
                           filename |-> <<base_filename, "var" \o ToString(i)>>]]
        /\ gctx' = [NoContext EXCEPT !.sid = IF session_id = SessionNone THEN <<fresh>> ELSE session_id]
        /\ nextSid' = IF session_id = SessionNone THEN fresh + 1 ELSE fresh
        /\ gpc' = "generate_multiple_images"
        /\ attempts' = {}
        /\ UNCHANGED <<available, i2iAvailable, files, lastCall>>

StartMultipleImages ==
    /\ gpc = "idle"
    /\ calls < MaxCalls
    /\ \E profile \in GenProfiles, session_id \in GivenSessions :
          MultipleImagesBegin(profile.v["image_prompts"], UsernameOf(profile), session_id, nextSid)
    /\ calls' = calls + 1
    /\ UNCHANGED <<anaVars, runVars, fnVars>>

\* ImageGenerator.generate_style_variations(profile, num_styles, session_id), up to its loop
StyleVariationsBegin(profile, num_styles, session_id, fresh) ==
    /\ \/ /\ ~available
          /\ lastCall' = [op |-> "generate_style_variations", prompt |-> PyNone, filename |-> <<>>, sid |-> session_id, ret |-> "unavailable"]
          /\ nextSid' = fresh
          /\ UNCHANGED <<gpc, todo, gctx>>
       \/ /\ available
          /\ MultiStyleRaises(profile)
          /\ lastCall' = [op |-> "generate_style_variations", prompt |-> PyNone, filename |-> <<>>, sid |-> session_id, ret |-> "raised"]
          /\ nextSid' = IF session_id = SessionNone THEN fresh + 1 ELSE fresh
          /\ UNCHANGED <<gpc, todo, gctx>>
       \/ /\ available
          /\ ~MultiStyleRaises(profile)
          /\ LET sp == generate_multi_style_prompts(profile, num_styles)
             IN  todo' = [i \in 1..Len(sp) |-> [prompt |-> sp[i].prompt, filename |-> <<UsernameOf(profile), sp[i].style_name>>]]
          /\ gctx' = [NoContext EXCEPT !.sid = IF session_id = SessionNone THEN <<fresh>> ELSE session_id,
                                       !.num_styles = num_styles]
          /\ nextSid' = IF session_id = SessionNone THEN fresh + 1 ELSE fresh
          /\ gpc' = "generate_style_variations"
          /\ UNCHANGED lastCall
    /\ attempts' = {}
    /\ UNCHANGED <<available, i2iAvailable, files>>

StartStyleVariations ==
    /\ gpc = "idle"
    /\ calls < MaxCalls
    /\ \E profile \in GenProfiles, num_styles \in NumStylesChoices, session_id \in GivenSessions :
          StyleVariationsBegin(profile, num_styles, session_id, nextSid)
    /\ calls' = calls + 1
    /\ UNCHANGED <<anaVars, runVars, fnVars>>

\* one iteration of the loop of generate_multiple_images / generate_style_variations
AttemptStep ==
    /\ gpc \in {"generate_multiple_images", "generate_style_variations"}
    /\ todo # <<>>
    /\ \E outcome \in GenOutcomes :
          LET h == Head(todo)
              r == IG_generate_image(available, files, h.prompt, h.filename, gctx.sid, nextSid, outcome)
          IN  /\ files' = r.files
              /\ attempts' = attempts \cup {Attempt(gpc, h.prompt, h.filename, r)}
              /\ gctx' = [gctx EXCEPT !.success_count = @ + (IF r.success THEN 1 ELSE 0), !.total = @ + 1]
    /\ todo' = Tail(todo)
    /\ UNCHANGED <<available, i2iAvailable, nextSid, gpc, lastCall, calls, anaVars, runVars, fnVars>>

\* ImageToImageGenerator.generate_profile_based_portrait(profile, image_path, style_mode, session_id)
PortraitCallWith(profile, style_mode, session_id, fresh, outcome) ==
    LET r == I2I_generate_profile_based_portrait(i2iAvailable, files, profile, style_mode, session_id, fresh, outcome)
        prompt == I2IPrompt(profile, style_mode)
    IN  /\ files' = r.files
        /\ nextSid' = fresh + r.freshUsed
        /\ attempts' = {Attempt("generate_profile_based_portrait", prompt, <<UsernameOf(profile), style_mode>>, r)}
        /\ lastCall' = [op |-> "generate_profile_based_portrait", prompt |-> prompt,
                        filename |-> <<UsernameOf(profile), style_mode>>, sid |-> session_id,
                        ret |-> IF r.success THEN "True" ELSE "False"]
        /\ UNCHANGED <<available, i2iAvailable, gpc, todo, gctx>>

PortraitCall ==
    /\ gpc = "idle"
    /\ calls < MaxCalls
    /\ \E profile \in GenProfiles, style_mode \in StyleModes, session_id \in GivenSessions, outcome \in I2IOutcomes :
          PortraitCallWith(profile, style_mode, session_id, nextSid, outcome)
    /\ calls' = calls + 1
    /\ UNCHANGED <<anaVars, runVars, fnVars>>

\* ImageToImageGenerator.generate_multiple_transformations(profile, image_path, modes), up to its loop
TransformationsBegin(profile, fresh) ==
    /\ todo' = [i \in 1..Len(TransformationModes) |->
                   [prompt |-> I2IPrompt(profile, TransformationModes[i]),
                    filename |-> <<UsernameOf(profile), TransformationModes[i]>>]]
    /\ gctx' = [NoContext EXCEPT !.sid = <<fresh>>, !.profile = profile]
    /\ nextSid' = fresh + 1
    /\ gpc' = "generate_multiple_transformations"
    /\ attempts' = {}
    /\ UNCHANGED <<available, i2iAvailable, files, lastCall>>

StartTransformations ==
    /\ gpc = "idle"
    /\ calls < MaxCalls
    /\ \E profile \in GenProfiles : TransformationsBegin(profile, nextSid)
    /\ calls' = calls + 1
    /\ UNCHANGED <<anaVars, runVars, fnVars>>

\* one iteration of the loop of generate_multiple_transformations
TransformationStep ==
    /\ gpc = "generate_multiple_transformations"
    /\ todo # <<>>
    /\ \E outcome \in I2IOutcomes :
          LET h == Head(todo)
              r == I2I_generate_profile_based_portrait(i2iAvailable, files, gctx.profile, h.filename[2], gctx.sid, nextSid, outcome)
          IN  /\ files' = r.files
              /\ attempts' = attempts \cup {Attempt(gpc, h.prompt, h.filename, r)}
              /\ gctx' = [gctx EXCEPT !.success_count = @ + (IF r.success THEN 1 ELSE 0), !.total = @ + 1]
    /\ todo' = Tail(todo)
    /\ UNCHANGED <<available, i2iAvailable, nextSid, gpc, lastCall, calls, anaVars, runVars, fnVars>>

\* the summary after the loop: success is success_count > 0
FinishMulti ==
    /\ gpc # "idle"
    /\ todo = <<>>
    /\ lastCall' = [op |-> gpc, prompt |-> PyNone, filename |-> <<>>, sid |-> gctx.sid,
                    ret |-> IF gctx.success_count > 0 THEN "True" ELSE "False"]
    /\ gpc' = "idle"
    /\ UNCHANGED <<available, i2iAvailable, files, attempts, nextSid, todo, gctx, calls, anaVars, runVars, fnVars>>

GenNext ==
    \/ CLIGenerateImage
    \/ StartMultipleImages
    \/ StartStyleVariations
    \/ AttemptStep
    \/ PortraitCall
    \/ StartTransformations
    \/ TransformationStep
    \/ FinishMulti

\* ------------------------------------------- analyze_user_profile: the actions

AnaInit ==
    /\ apc = "idle"
    /\ anaUser = ""
    /\ anaData = [exists |-> FALSE, active |-> FALSE, daily |-> <<>>]
    /\ faults = 0
    /\ executed = {}
    /\ parts = <<>>
    /\ anaResult = NoResult
    /\ disk = [f \in ProfilePaths |-> NoFile]
    /\ loaded = NotLoaded
    /\ builds = 0

\* analyze_user_profile(username, github_token, gemini_api_key) is called
StartAnalyze ==
    /\ apc \in {"idle", "returned", "loaded"}
    /\ builds < MaxBuilds
    /\ \E name \in AnalyzeUsernames, data \in UserData :
          /\ anaUser' = name
          /\ anaData' = data
    /\ apc' = "get_user"
    /\ faults' = 0
    /\ executed' = {}
    /\ parts' = <<>>
    /\ anaResult' = NoResult
    /\ loaded' = NotLoaded
    /\ builds' = builds + 1
    /\ UNCHANGED <<disk, genVars, runVars, fnVars>>

\* g.get_user(username), return None on GithubException, then the legend test
GetUser ==
    /\ apc = "get_user"
    /\ \/ /\ ~anaData.exists
          /\ anaResult' = [kind |-> "None", at |-> "get_user", profile |-> PyNone]
          /\ apc' = "returned"
       \/ /\ anaData.exists
          /\ IsLegend(anaUser)
          /\ apc' = "legend"
          /\ UNCHANGED anaResult
       \/ /\ anaData.exists
          /\ ~IsLegend(anaUser)
          /\ apc' = AnalysisOrder[1]
          /\ UNCHANGED anaResult
    /\ UNCHANGED <<anaUser, anaData, faults, executed, parts, disk, loaded, builds, genVars, runVars, fnVars>>

\* the pre-defined profile and its prompts
BuildLegend ==
    /\ apc = "legend"
    /\ parts' = [profile |-> LegendProfile]
    /\ apc' = "save"
    /\ UNCHANGED <<anaUser, anaData, faults, executed, anaResult, disk, loaded, builds, genVars, runVars, fnVars>>

\* one of the nine calls of the else branch, with its assignment
AnalyzeStep ==
    /\ apc \in AnalysisKeys
    /\ \E fault \in FaultsOf(apc, anaData, faults) :
          LET r == RunAnalysis(apc, anaData, IF fault = "names" THEN "none" ELSE fault)
          IN  /\ faults' = IF fault = "none" THEN faults ELSE faults + 1
              /\ executed' = IF fault = "names" THEN executed ELSE executed \cup {AnalysisFunction[apc]}
              /\ IF fault = "names" \/ r.raised
                 THEN /\ anaResult' = [kind |-> "raised", at |-> apc, profile |-> PyNone]
                      /\ apc' = "returned"
                      /\ UNCHANGED parts
                 ELSE /\ parts' = (IF apc = "domain_focus"
                                   THEN UnpackAreaOfFocus(r.value)
                                   ELSE [k \in {apc} |-> r.value]) @@ parts
                      /\ apc' = KeyAfter(apc)
                      /\ UNCHANGED anaResult
    /\ UNCHANGED <<anaUser, anaData, disk, loaded, builds, genVars, runVars, fnVars>>

\* temp_profile, generate_image_prompt, create_prompt_variations, profile
GeneratePrompts ==
    /\ apc = "image_prompts"
    /\ parts' = [profile |-> FullProfile(anaUser, builds, parts)]
    /\ apc' = "save"
    /\ UNCHANGED <<anaUser, anaData, faults, executed, anaResult, disk, loaded, builds, genVars, runVars, fnVars>>

SaveOutcomes == {"written", "open_fails", "write_fails"}

\* open(file_path, 'w'), json.dump(profile, f, indent=4), return profile
SaveProfile ==
    /\ apc = "save"
    /\ \E outcome \in SaveOutcomes :
          /\ disk' = CASE outcome = "written" ->
                            [disk EXCEPT ![AnalyzerProfilePath(anaUser)] = JsonFile(JsonDump(parts.profile))]
                       [] outcome = "write_fails" ->
                            [disk EXCEPT ![AnalyzerProfilePath(anaUser)] = TruncatedFile]
                       [] OTHER -> disk
          /\ anaResult' = IF outcome = "written"
                          THEN [kind |-> "profile", at |-> "return", profile |-> parts.profile]
                          ELSE [kind |-> "raised", at |-> "save", profile |-> PyNone]
    /\ apc' = "returned"
    /\ UNCHANGED <<anaUser, anaData, faults, executed, parts, loaded, builds, genVars, runVars, fnVars>>

\* load_existing_profile(username) of the CLI or the web form
LoadExistingProfile ==
    /\ apc = "returned"
    /\ \E name \in AnalyzeUsernames :
          loaded' = [username |-> name, profile |-> load_existing_profile(disk, name)]
    /\ apc' = "loaded"
    /\ UNCHANGED <<anaUser, anaData, faults, executed, parts, anaResult, disk, builds, genVars, runVars, fnVars>>

AnaNext ==
    \/ StartAnalyze
    \/ GetUser
    \/ BuildLegend
    \/ AnalyzeStep
    \/ GeneratePrompts
    \/ SaveProfile
    \/ LoadExistingProfile

\* ------------------------------------------- main.py / app.py: the operators

\* os.getenv of each of the two variables gives a value or None
EnvChoices == [token : BOOLEAN, key : BOOLEAN]

\* ImageGenerator() and ImageToImageGenerator() as constructed under an
\* environment: ImageGenerator.available needs GEMINI_API_KEY, the packages
\* and a client; ImageToImageGenerator.available is bool(GEMINI_API_KEY)
AvailabilityChoices(e) ==
    {a \in [t2i : BOOLEAN, i2i : BOOLEAN] : (a.t2i => e.key) /\ (a.i2i = e.key)}

\* The test for the token alone.
CredentialsPresent_token_only(e) == e.token

\* if not github_token: ... if not gemini_api_key: ...
CredentialsPresent(e) == e.token /\ e.key

\* -b takes one or more names
BatchLists == {<<"alice">>, <<"alice", "torvalds">>}

Range(q) == {q[i] : i \in 1..Len(q)}

\* if args.batch: ... elif args.username: ... else: ...
TopLevelMode(batch, username) ==
    IF batch # <<>> THEN "batch" ELSE IF username # "" THEN "single" ELSE "interactive"

\* -b, -u and --force-refresh as given on the command line
MainArgs == [batch : BatchLists \cup {<<>>}, username : Usernames \cup {""}, force_refresh : BOOLEAN]

\* What main passes on: batch_mode(args.batch) gets the names, the
\* single-user branch reads args.username and args.force_refresh,
\* interactive_mode() gets nothing and asks for the name.
MainEntry(a, typed) ==
    LET top == TopLevelMode(a.batch, a.username)
    IN  [top |-> top,
         name |-> CASE top = "single" -> a.username [] top = "interactive" -> typed [] OTHER -> "",
         batch |-> IF top = "batch" THEN a.batch ELSE <<>>,
         force |-> top = "single" /\ a.force_refresh,
         given |-> a.force_refresh]

MainEntries == {MainEntry(a, typed) : a \in MainArgs, typed \in Usernames}

\* the flags the single-user branch of main tests
ModeFlags ==
    [preview : BOOLEAN, profile_picture : BOOLEAN, multi_transformation : BOOLEAN,
     multi_style : BOOLEAN, style_interactive : BOOLEAN, profile_only : BOOLEAN]

NoArgs == [read |-> FALSE]

\* The chain with the profile-picture tests moved to the front.
MainBranch_picture_first(flags, profile) ==
    IF flags.profile_picture /\ flags.multi_transformation THEN "multi_transformation"
    ELSE IF flags.profile_picture THEN "profile_picture"
    ELSE IF flags.preview THEN "preview"
    ELSE IF flags.multi_style THEN "multi_style"
    ELSE IF flags.style_interactive THEN "style_interactive"
    ELSE IF ~flags.profile_only /\ HasKey(profile, "image_prompts") THEN "standard"
    ELSE "none"

\* the if / elif chain after display_profile_summary in main
MainBranch(flags, profile) ==
    IF flags.preview THEN "preview"
    ELSE IF flags.profile_picture /\ flags.multi_transformation THEN "multi_transformation"
    ELSE IF flags.profile_picture THEN "profile_picture"
    ELSE IF flags.multi_style THEN "multi_style"
    ELSE IF flags.style_interactive THEN "style_interactive"
    ELSE IF ~flags.profile_only /\ HasKey(profile, "image_prompts") THEN "standard"
    ELSE "none"

\* The question answered by pressing Enter counts as a yes.
Consents_enter_is_yes(privacy_check, answer) == ~privacy_check \/ answer \in {"y", "yes", ""}

\* if privacy_check: consent = input(...).strip().lower();
\* if consent not in ['y', 'yes']: return False
Consents(privacy_check, answer) == ~privacy_check \/ answer \in {"y", "yes"}

\* --privacy-mode and what is typed at the question; nothing is asked without it
PrivacyChoices ==
    {[privacy_check |-> FALSE, answer |-> "none"]}
    \cup {[privacy_check |-> TRUE, answer |-> a] : a \in {"y", "n", ""}}

\* The keys are missing and the loop goes on without a record.
MissingKeysResults_none(results, username) == results

\* results.append({'username': username, 'success': False, 'error': 'Missing API keys'})
MissingKeysResults(results, username) == Append(results, [username |-> username, success |-> FALSE])

\* "Custom options" of the web form's Text-to-Image mode: what the three
\* select boxes hold
CustomOptions ==
    [artistic_style : {"Vibrant pop art", "Minimalist design"},
     character_archetype : {"Majestic Bear", "Wise Owl"},
     background_env : {"A server room with glowing racks", "A futuristic city skyline"}]

\* the prompt generate_text_to_image sends: handle_generation receives the
\* selections and passes none of them on
UI_text_to_image_prompt(profile, options) == profile.v["image_prompts"].v["main_prompt"]

\* the menu of interactive_mode: 1..4
MenuBranch(mode_choice) ==
    CASE mode_choice = 1 -> "preview"
      [] mode_choice = 2 -> "standard_generation_mode"
      [] mode_choice = 3 -> "multi_style_generation_mode"
      [] OTHER -> "style_interactive"

\* GitToImageCLI.display_profile_summary raises: profile['username'] of None
\* or of a dict without it, max() of an empty language_profile
CLI_display_profile_summary_raises(profile) ==
    \/ profile.py # "dict"
    \/ ~HasKey(profile, "username")
    \/ (HasKey(profile, "language_profile") /\ ~Truthy(profile.v["language_profile"]))

\* GitToImageUI.display_profile_summary raises: it uses .get and tests emptiness
UI_display_profile_summary_raises(profile) == profile.py # "dict"

\* create_custom_style_prompt raises: get_weighted_style_elements raises, or
\* profile.get('domain_focus', {}) is not a dict and has no .get
create_custom_style_prompt_raises(profile) ==
    \/ get_weighted_style_elements(profile, 100).raised
    \/ DictGet(profile, "domain_focus", EmptyDict).py # "dict"

CustomStylePrompt(profile, style_num) == PyStr(<<"custom_style", UsernameOf(profile), style_num>>)

\* what the API holds for a user while a run analyses it
RunUserData ==
    {[exists |-> FALSE, active |-> FALSE, daily |-> <<>>],
     [exists |-> TRUE, active |-> FALSE, daily |-> <<>>],
     TypicalUser}

\* analyze_user_profile(name, token, key) as one call: what it returns and the
\* cache directory after it.  fault: a request fails where no try block
\* catches it.
analyze_user_profile(d, name, stamp, data, fault, save) ==
    LET profile == BuiltProfile(name, stamp, data)
        path == AnalyzerProfilePath(name)
    IN  IF ~data.exists THEN [kind |-> "None", profile |-> PyNone, disk |-> d]
        ELSE IF fault /\ ~IsLegend(name) THEN [kind |-> "raised", profile |-> PyNone, disk |-> d]
        ELSE CASE save = "written" ->
                    [kind |-> "profile", profile |-> profile,
                     disk |-> [d EXCEPT ![path] = JsonFile(JsonDump(profile))]]
               [] save = "write_fails" ->
                    [kind |-> "raised", profile |-> PyNone, disk |-> [d EXCEPT ![path] = TruncatedFile]]
               [] OTHER -> [kind |-> "raised", profile |-> PyNone, disk |-> d]

NewRun(entry, top, name, force) ==
    [entry |-> entry,           \* "main" or "web"
     top |-> top,               \* batch_mode / the single-user branch / interactive_mode entered
     username |-> name,
     force_refresh |-> force,   \* args.force_refresh as the branch entered reads it
     force_given |-> FALSE,     \* --force-refresh was on the command line
     batch |-> <<>>,            \* the names batch_mode still has to process
     usernames |-> <<>>,        \* the usernames argument of batch_mode
     results |-> <<>>,          \* its results so far
     sid |-> SessionNone,       \* batch_session_id
     form |-> "",               \* the mode chosen in the web form
     args |-> NoArgs,           \* the mode flags the if / elif chain has just read
     profile_only |-> FALSE,    \* --profile-only was given
     selected |-> <<>>,         \* selected_styles of interactive_style_selection_mode
     attempted |-> <<>>,        \* what its calls of self.generate_image returned
     privacy_check |-> FALSE,   \* the privacy check of a picture mode is enabled
     answer |-> "none",         \* the answer to its question, or the state of the web form's checkbox
     downloaded |-> FALSE,      \* get_github_profile_picture was called
     need_build |-> FALSE,      \* "if not profile" was true
     analyzed |-> FALSE,        \* analyze_user_profile was called
     branches |-> <<>>,         \* branches of the chain, or of the menu, entered
     modes |-> <<>>,            \* mode methods of GitToImageCLI called
     arg |-> PyNone,            \* the profile a mode method works on
     exit |-> "none"]

NoRun == NewRun("none", <<>>, "", FALSE)

NoHistory == [u \in Usernames |-> [calls |-> 0, succeeded |-> FALSE, refreshed |-> FALSE]]

\* sys.exit(1) of main, st.error(...) and return of the web form
Failure(r) == IF r.entry = "web" THEN "error" ELSE "1"

\* sys.exit(0 if success else 1); an exception reaches main's except: sys.exit(1)
ExitOf(ret) == IF ret = "True" THEN "0" ELSE "1"

AfterBuild(r) == IF r.top = <<"batch">> THEN "batch_generate" ELSE "display"

anaLocals == <<apc, anaUser, anaData, faults, executed, parts, anaResult, loaded, builds>>

genLocals == <<available, i2iAvailable, files, attempts, nextSid, gpc, todo, gctx, lastCall>>

\* ------------------------------------------- main.py / app.py: the actions

\* a new process: the generators are constructed, nothing has been requested
FreshProcess(e) ==
    /\ env' = e
    /\ \E a \in AvailabilityChoices(e) : available' = a.t2i /\ i2iAvailable' = a.i2i
    /\ files' = {}
    /\ attempts' = {}
    /\ gpc' = "idle"
    /\ todo' = <<>>
    /\ gctx' = NoContext
    /\ lastCall' = NoCall
    /\ mem' = PyNone
    /\ runs' = runs + 1

\* main(): parse_args, GitToImageCLI(), the outer if / elif / else, and in
\* interactive_mode the user name typed in
StartMain ==
    /\ rpc = "idle"
    /\ runs < MaxRuns
    /\ \E e \in EnvChoices, m \in MainEntries :
          /\ FreshProcess(e)
          /\ run' = [NewRun("main", <<m.top>>, m.name, m.force) EXCEPT
                        !.batch = m.batch,
                        !.usernames = m.batch,
                        !.force_given = m.given,
                        !.sid = IF m.top = "batch" THEN <<1>> ELSE SessionNone]
          /\ nextSid' = IF m.top = "batch" THEN 2 ELSE 1
          /\ rpc' = IF m.top = "batch" THEN "batch_next" ELSE "load"
          /\ hist' = IF m.force THEN [hist EXCEPT ![m.name].refreshed = TRUE] ELSE hist
    /\ UNCHANGED <<calls, anaVars, fnVars>>

\* GitToImageUI.handle_generation(username, mode, ..., privacy_consent)
StartWeb ==
    /\ rpc = "idle"
    /\ runs < MaxRuns
    /\ \E e \in EnvChoices, name \in Usernames, form \in {"Text-to-Image", "Image-to-Image"},
          privacy_consent \in BOOLEAN :
          LET submitted == [NewRun("web", <<"web">>, name, FALSE) EXCEPT
                               !.form = form,
                               !.privacy_check = form = "Image-to-Image",
                               !.answer = CASE form = "Text-to-Image" -> "none"
                                            [] privacy_consent -> "checked"
                                            [] OTHER -> "unchecked"]
          IN  /\ FreshProcess(e)
              /\ form = "Text-to-Image" => privacy_consent     \* render_ui passes True
              /\ IF form = "Image-to-Image" /\ ~privacy_consent
                 THEN /\ run' = [submitted EXCEPT !.exit = "error"]
                      /\ rpc' = "idle"
                 ELSE /\ run' = submitted
                      /\ rpc' = "load"
    /\ nextSid' = 1
    /\ UNCHANGED <<hist, calls, anaVars, fnVars>>

\* the head of the loop of batch_mode, and after it main's sys.exit
BatchNext ==
    /\ rpc = "batch_next"
    /\ IF run.batch = <<>>
       THEN /\ run' = [run EXCEPT !.exit = IF \A i \in 1..Len(run.results) : run.results[i].success THEN "0" ELSE "1"]
            /\ rpc' = "idle"
       ELSE /\ run' = [run EXCEPT !.username = Head(run.batch), !.batch = Tail(run.batch),
                                   !.need_build = FALSE, !.analyzed = FALSE]
            /\ rpc' = "load"
    /\ UNCHANGED <<env, mem, hist, runs, genVars, anaVars, fnVars>>

\* profile = load_existing_profile(username) (main: None with --force-refresh),
\* in interactive_mode with the question whether to use it
LoadProfile ==
    /\ rpc = "load"
    /\ \E use_existing \in BOOLEAN :
          LET found == load_existing_profile(disk, run.username)
              declined == run.top = <<"interactive">> /\ Truthy(found) /\ ~use_existing
              profile == IF (run.top = <<"single">> /\ run.force_refresh) \/ declined THEN PyNone ELSE found
          IN  /\ mem' = profile
              /\ run' = [run EXCEPT !.need_build = ~Truthy(profile)]
              /\ hist' = IF declined THEN [hist EXCEPT ![run.username].refreshed = TRUE] ELSE hist
              /\ rpc' = IF ~Truthy(profile) THEN "credentials" ELSE AfterBuild(run)
    /\ UNCHANGED <<env, runs, genVars, anaVars, fnVars>>

\* if not profile: the two os.getenv tests in front of analyze_user_profile
CheckCredentials ==
    /\ rpc = "credentials"
    /\ IF CredentialsPresent(env)
       THEN /\ rpc' = "analyze"
            /\ UNCHANGED run
       ELSE IF run.top = <<"batch">>
       THEN /\ run' = [run EXCEPT !.results = MissingKeysResults(@, run.username)]
            /\ rpc' = "batch_next"
       ELSE /\ run' = [run EXCEPT !.exit = Failure(run)]
            /\ rpc' = "idle"
    /\ UNCHANGED <<env, mem, hist, runs, genVars, anaVars, fnVars>>

\* profile = github_analyzer.analyze_user_profile(username, github_token, gemini_api_key)
CallAnalyze ==
    /\ rpc = "analyze"
    /\ \E data \in RunUserData, fault \in BOOLEAN, save \in SaveOutcomes :
          LET name == run.username
              r == analyze_user_profile(disk, name, hist[name].calls + 1, data, fault, save)
          IN  /\ disk' = r.disk
              /\ hist' = [hist EXCEPT ![name].calls = @ + 1,
                                      ![name].succeeded = @ \/ r.kind = "profile"]
              /\ mem' = r.profile
              /\ IF r.kind = "raised" /\ run.top = <<"batch">>
                 THEN /\ run' = [run EXCEPT !.analyzed = TRUE,
                                                !.results = Append(@, [username |-> run.username, success |-> FALSE])]
                      /\ rpc' = "batch_next"
                 ELSE IF r.kind = "raised" \/ (r.kind = "None" /\ run.entry = "web")
                 THEN /\ run' = [run EXCEPT !.analyzed = TRUE, !.exit = Failure(run)]
                      /\ rpc' = "idle"
                 ELSE /\ run' = [run EXCEPT !.analyzed = TRUE]
                      /\ rpc' = AfterBuild(run)
    /\ UNCHANGED <<env, runs, genVars, anaLocals, fnVars>>

\* display_profile_summary(profile)
DisplaySummary ==
    /\ rpc = "display"
    /\ IF (IF run.entry = "web" THEN UI_display_profile_summary_raises(mem)
                                ELSE CLI_display_profile_summary_raises(mem))
       THEN /\ run' = [run EXCEPT !.exit = Failure(run)]
            /\ rpc' = "idle"
       ELSE /\ rpc' = CASE run.top = <<"single">> -> "dispatch"
                        [] run.top = <<"interactive">> -> "menu"
                        [] OTHER -> "web_generate"
            /\ UNCHANGED run
    /\ UNCHANGED <<env, mem, hist, runs, genVars, anaVars, fnVars>>

\* the if / elif chain of the single-user branch; without a branch main returns
Dispatch ==
    /\ rpc = "dispatch"
    /\ \E flags \in ModeFlags :
          LET branch == MainBranch(flags, mem)
          IN  IF branch = "none"
              THEN /\ run' = [run EXCEPT !.args = flags, !.profile_only = flags.profile_only, !.exit = "0"]
                   /\ rpc' = "idle"
              ELSE /\ run' = [run EXCEPT !.args = flags, !.profile_only = flags.profile_only,
                                             !.branches = Append(@, branch), !.arg = mem]
                   /\ rpc' = branch
    /\ UNCHANGED <<env, mem, hist, runs, genVars, anaVars, fnVars>>

\* the menu of interactive_mode
Menu ==
    /\ rpc = "menu"
    /\ \E mode_choice \in 1..4 :
          /\ run' = [run EXCEPT !.branches = Append(@, MenuBranch(mode_choice)), !.arg = mem]
          /\ rpc' = MenuBranch(mode_choice)
    /\ UNCHANGED <<env, mem, hist, runs, genVars, anaVars, fnVars>>

\* the branch starts working: main reads the flags no more
Entered(mode) == [run EXCEPT !.args = NoArgs, !.modes = Append(@, mode)]

\* preview_analysis_mode(profile): prints and returns True
PreviewAnalysisMode ==
    /\ rpc = "preview"
    /\ run' = [Entered("preview_analysis_mode") EXCEPT !.exit = IF run.arg.py = "dict" THEN "0" ELSE "1"]
    /\ rpc' = "idle"
    /\ UNCHANGED <<env, mem, hist, runs, genVars, anaVars, fnVars>>

\* main: cli.generate_image(profile['image_prompts']['main_prompt'], f"{username}_main", session_id)
StandardBranch ==
    /\ rpc = "standard"
    /\ \E c \in CLICallChoices :
          /\ CLIGenerateImageCall(MainPrompt(mem), <<run.username, "main">>, <<nextSid>>, nextSid + 1, c)
          /\ run' = [run EXCEPT !.args = NoArgs, !.exit = ExitOf(lastCall'.ret)]
    /\ rpc' = "idle"
    /\ UNCHANGED <<env, mem, hist, runs, calls, anaVars, fnVars>>

\* main: cli.image_generator.generate_style_variations(profile, args.num_styles, session_id)
MultiStyleBranch ==
    /\ rpc = "multi_style"
    /\ \E num_styles \in NumStylesChoices :
          StyleVariationsBegin(mem, num_styles, <<nextSid>>, nextSid + 1)
    /\ mem' = IF available THEN TemplatedProfile(mem) ELSE mem
    /\ run' = [run EXCEPT !.args = NoArgs]
    /\ rpc' = "generating"
    /\ UNCHANGED <<env, hist, runs, calls, anaVars, fnVars>>

\* multi_style_generation_mode(profile, username): the number is clamped to 1..8
MultiStyleGenerationMode ==
    /\ rpc = "multi_style_generation_mode"
    /\ \E num_styles \in {n \in NumStylesChoices : 1 <= n /\ n <= 8} :
          StyleVariationsBegin(run.arg, num_styles, <<nextSid>>, nextSid + 1)
    /\ mem' = IF available THEN TemplatedProfile(mem) ELSE mem
    /\ run' = Entered("multi_style_generation_mode")
    /\ rpc' = "generating"
    /\ UNCHANGED <<env, hist, runs, calls, anaVars, fnVars>>

\* interactive_style_selection_mode(profile, username): the first selected
\* style; "success, result = self.generate_image(...)" unpacks a bool
InteractiveStyleSelectionMode ==
    /\ rpc = "style_interactive"
    /\ \E selected \in {<<>>, <<1>>, <<5>>} :
          IF selected = <<>> \/ create_custom_style_prompt_raises(run.arg)
          THEN /\ mem' = IF selected = <<>> THEN mem ELSE TemplatedProfile(mem)
               /\ run' = [Entered("interactive_style_selection_mode") EXCEPT
                              !.exit = "1", !.selected = selected]
               /\ UNCHANGED genLocals
          ELSE /\ mem' = TemplatedProfile(mem)
               /\ \E c \in CLICallChoices :
                     CLIGenerateImageCall(CustomStylePrompt(run.arg, selected[1]),
                                          <<run.username, "custom_style", selected[1]>>,
                                          <<nextSid>>, nextSid + 1, c)
               /\ run' = [Entered("interactive_style_selection_mode") EXCEPT
                              !.exit = "1", !.selected = selected, !.attempted = <<lastCall'.ret>>]
    /\ rpc' = "idle"
    /\ UNCHANGED <<env, hist, runs, calls, anaVars, fnVars>>

\* standard_generation_mode(profile, username)
StandardGenerationMode ==
    /\ rpc = "standard_generation_mode"
    /\ IF ~HasKey(run.arg, "image_prompts")
       THEN /\ run' = [Entered("standard_generation_mode") EXCEPT !.exit = "1"]
            /\ rpc' = "idle"
            /\ UNCHANGED genLocals
       ELSE LET prompts == run.arg.v["image_prompts"]
            IN  \/ \E c \in CLICallChoices :          \* 0: the main prompt
                      /\ CLIGenerateImageCall(prompts.v["main_prompt"], <<run.username, "main">>,
                                              <<nextSid>>, nextSid + 1, c)
                      /\ run' = [Entered("standard_generation_mode") EXCEPT !.exit = ExitOf(lastCall'.ret)]
                      /\ rpc' = "idle"
                \/ /\ MultipleImagesBegin(prompts, run.username, <<nextSid>>, nextSid + 1)     \* 1: all
                   /\ run' = Entered("standard_generation_mode")
                   /\ rpc' = "generating"
                \/ \E choice \in 2..(Len(VariationPrompts(run.arg)) + 1), c \in CLICallChoices :
                      /\ CLIGenerateImageCall(VariationPrompts(run.arg)[choice - 1],
                                              <<run.username, "var" \o ToString(choice - 1)>>,
                                              <<nextSid>>, nextSid + 1, c)
                      /\ run' = [Entered("standard_generation_mode") EXCEPT !.exit = ExitOf(lastCall'.ret)]
                      /\ rpc' = "idle"
    /\ UNCHANGED <<env, mem, hist, runs, calls, anaVars, fnVars>>

\* profile_picture_mode(username, transformation_mode, privacy_check)
ProfilePictureMode ==
    /\ rpc = "profile_picture"
    /\ \E p \in PrivacyChoices :
          LET profile == load_existing_profile(disk, run.username)
              asked == [Entered("profile_picture_mode") EXCEPT
                           !.privacy_check = p.privacy_check, !.answer = p.answer]
              called == [asked EXCEPT !.arg = profile]
              fetched == [called EXCEPT !.downloaded = TRUE]
          IN  IF ~Consents(p.privacy_check, p.answer)
              THEN /\ run' = [asked EXCEPT !.exit = "1"]
                   /\ rpc' = "idle"
                   /\ UNCHANGED genLocals
              ELSE IF ~Truthy(profile)
              THEN \* github_analyzer.analyze_and_save_user_profile does not exist
                   /\ run' = [called EXCEPT !.exit = "1"]
                   /\ rpc' = "idle"
                   /\ UNCHANGED genLocals
              ELSE \/ /\ run' = fetched                                     \* the download fails
                      /\ rpc' = "standard_generation_mode"
                      /\ UNCHANGED genLocals
                   \/ /\ run' = [fetched EXCEPT !.exit = "1"]               \* validation fails
                      /\ rpc' = "idle"
                      /\ UNCHANGED genLocals
                   \/ /\ ~i2iAvailable
                      /\ run' = [fetched EXCEPT !.exit = "1"]
                      /\ rpc' = "idle"
                      /\ UNCHANGED genLocals
                   \/ /\ i2iAvailable
                      /\ \E style_mode \in StyleModes, outcome \in I2IOutcomes :
                            PortraitCallWith(profile, style_mode, <<nextSid>>, nextSid + 1, outcome)
                      /\ run' = [fetched EXCEPT !.arg = TemplatedProfile(profile), !.exit = ExitOf(lastCall'.ret)]
                      /\ rpc' = "idle"
    /\ UNCHANGED <<env, mem, hist, runs, calls, anaVars, fnVars>>

\* multi_transformation_mode(username, privacy_check)
MultiTransformationMode ==
    /\ rpc = "multi_transformation"
    /\ \E p \in PrivacyChoices :
          LET profile == load_existing_profile(disk, run.username)
              asked == [Entered("multi_transformation_mode") EXCEPT
                           !.privacy_check = p.privacy_check, !.answer = p.answer]
              called == [asked EXCEPT !.arg = profile]
              fetched == [called EXCEPT !.downloaded = TRUE]
          IN  IF ~Consents(p.privacy_check, p.answer)
              THEN /\ run' = [asked EXCEPT !.exit = "1"]
                   /\ rpc' = "idle"
                   /\ UNCHANGED genLocals
              ELSE IF ~Truthy(profile)
              THEN \* github_analyzer.analyze_and_save_user_profile does not exist
                   /\ run' = [called EXCEPT !.exit = "1"]
                   /\ rpc' = "idle"
                   /\ UNCHANGED genLocals
              ELSE \/ /\ run' = [fetched EXCEPT !.exit = "1"]               \* the download fails
                      /\ rpc' = "idle"
                      /\ UNCHANGED genLocals
                   \/ /\ ~i2iAvailable
                      /\ run' = [fetched EXCEPT !.exit = "1"]
                      /\ rpc' = "idle"
                      /\ UNCHANGED genLocals
                   \/ /\ i2iAvailable
                      /\ TransformationsBegin(profile, nextSid)
                      /\ run' = [fetched EXCEPT !.arg = TemplatedProfile(profile)]
                      /\ rpc' = "generating"
    /\ UNCHANGED <<env, mem, hist, runs, calls, anaVars, fnVars>>

\* a generate_* call of several requests has returned to the mode that made it
GenerationReturns ==
    /\ rpc = "generating"
    /\ gpc = "idle"
    /\ run' = [run EXCEPT !.exit = ExitOf(lastCall.ret)]
    /\ rpc' = "idle"
    /\ UNCHANGED <<env, mem, hist, runs, genVars, anaVars, fnVars>>

\* ImageGenerator.generate_image called directly, as the web form does
IGGenerateImageCall(prompt, filename, session_id, fresh, outcome) ==
    LET r == IG_generate_image(available, files, prompt, filename, session_id, fresh, outcome)
    IN  /\ files' = r.files
        /\ nextSid' = fresh + r.freshUsed
        /\ attempts' = {Attempt("ImageGenerator.generate_image", prompt, filename, r)}
        /\ lastCall' = [op |-> "ImageGenerator.generate_image", prompt |-> prompt, filename |-> filename,
                        sid |-> session_id, ret |-> IF r.success THEN "True" ELSE "False"]
        /\ UNCHANGED <<available, i2iAvailable, gpc, todo, gctx>>

\* generate_text_to_image / generate_image_to_image of the web form
WebGenerate ==
    /\ rpc = "web_generate"
    /\ \/ /\ run.form = "Text-to-Image"
          /\ IF ~HasKey(mem, "image_prompts")
             THEN /\ run' = [run EXCEPT !.exit = "error"]
                  /\ UNCHANGED genLocals
             ELSE /\ \E outcome \in GenOutcomes, options \in CustomOptions :
                        IGGenerateImageCall(UI_text_to_image_prompt(mem, options), <<run.username, "ui_generated">>,
                                            <<nextSid>>, nextSid + 1, outcome)
                  /\ run' = [run EXCEPT !.exit = IF lastCall'.ret = "True" THEN "shown" ELSE "error"]
          /\ mem' = mem
       \/ /\ run.form = "Image-to-Image"
          /\ ~i2iAvailable
          /\ run' = [run EXCEPT !.exit = "error"]
          /\ mem' = mem
          /\ UNCHANGED genLocals
       \/ /\ run.form = "Image-to-Image"           \* no picture or an invalid one
          /\ i2iAvailable
          /\ run' = [run EXCEPT !.downloaded = TRUE, !.exit = "error"]
          /\ mem' = mem
          /\ UNCHANGED genLocals
       \/ /\ run.form = "Image-to-Image"
          /\ i2iAvailable
          /\ \E style_mode \in StyleModes, outcome \in I2IOutcomes :
                PortraitCallWith(mem, style_mode, SessionNone, nextSid, outcome)
          /\ run' = [run EXCEPT !.downloaded = TRUE,
                                !.exit = IF lastCall'.ret = "True" THEN "shown" ELSE "error"]
          /\ mem' = TemplatedProfile(mem)
    /\ rpc' = "idle"
    /\ UNCHANGED <<env, hist, runs, calls, anaVars, fnVars>>

\* batch_mode: the main prompt of this user, under the batch session id
BatchGenerate ==
    /\ rpc = "batch_generate"
    /\ IF mem.py # "dict" \/ ~HasKey(mem, "image_prompts")
       THEN /\ run' = [run EXCEPT !.results = Append(@, [username |-> run.username, success |-> FALSE])]
            /\ UNCHANGED genLocals
       ELSE \E c \in CLICallChoices :
               /\ CLIGenerateImageCall(MainPrompt(mem), <<"batch", run.username, "main">>, run.sid, nextSid, c)
               /\ run' = [run EXCEPT !.results = Append(@, [username |-> run.username,
                                                              success |-> lastCall'.ret = "True"])]
    /\ rpc' = "batch_next"
    /\ UNCHANGED <<env, mem, hist, runs, calls, anaVars, fnVars>>

RunNext ==
    \/ StartMain
    \/ StartWeb
    \/ BatchNext
    \/ LoadProfile
    \/ CheckCredentials
    \/ CallAnalyze
    \/ DisplaySummary
    \/ Dispatch
    \/ Menu
    \/ PreviewAnalysisMode
    \/ StandardBranch
    \/ MultiStyleBranch
    \/ MultiStyleGenerationMode
    \/ InteractiveStyleSelectionMode
    \/ StandardGenerationMode
    \/ ProfilePictureMode
    \/ MultiTransformationMode
    \/ AttemptStep
    \/ TransformationStep
    \/ FinishMulti
    \/ GenerationReturns
    \/ WebGenerate
    \/ BatchGenerate

\* --------------------------------------------- the functions on their own

\* if total_analyzed >= 10: break
AnalyzedLimit == 10

NoLocals == [pc |-> "none"]

\* frontend_score = backend_score = fullstack_score = total_analyzed = 0;
\* seen counts the repositories the for loop has taken, requests the calls
\* of gemini_client.models.generate_content
FocusLocals ==
    [pc |-> "for", seen |-> 0, requests |-> 0, total_analyzed |-> 0,
     frontend_score |-> 0, backend_score |-> 0, fullstack_score |-> 0]

\* the arguments the functions are evaluated on
FnInputs ==
    LET
        \* the arguments of the scoring rules: the metrics get_contribution_style
        \* has collected when it scores, the counters of analyze_code_originality
        \* and the three scores of classify_frontend_backend_focus after their
        \* loops, a pull request as classify_pr_type reads it
        ScoringInputs ==
            LET StyleMetrics ==
                    {m \in [total_repos : 0..MaxRepos, own_repos : 0..MaxRepos, fork_repos : 0..MaxRepos,
                            total_commits : {0, 25, 50}, avg_commit_size : {0, 30, 50},
                            avg_msg_length : {0, 50}, conventional : {0, 1000}] :
                        /\ m.own_repos <= m.total_repos /\ m.fork_repos <= m.total_repos
                        /\ (m.total_repos = 0 => m.total_commits = 0)
                        /\ (m.total_commits = 0 =>
                               m.avg_commit_size = 0 /\ m.avg_msg_length = 0 /\ m.conventional = 0)}
                OriginalityMetrics ==
                    {m \in [owned_repos : 0..(MaxRepos + 1), contributed_repos : 0..(MaxRepos + 1),
                            created_from_scratch : 0..(MaxRepos + 1)] : m.created_from_scratch <= m.owned_repos}
                FocusMetrics ==
                    [frontend_score : 0..(MaxRepos + 1), backend_score : 0..(MaxRepos + 1),
                     fullstack_score : 0..(MaxRepos + 1)]
                PullRequests ==
                    {pr \in [title : SUBSET {"feature", "fix", "docs", "test"}, files_fail : BOOLEAN,
                             files : 0..MaxRepos, doc_files : 0..MaxRepos, test_files : 0..MaxRepos] :
                        pr.doc_files <= pr.files /\ pr.test_files <= pr.files}
            IN  {[fn |-> "get_contribution_style", m |-> m] : m \in StyleMetrics}
                \cup {[fn |-> "analyze_code_originality", m |-> m] : m \in OriginalityMetrics}
                \cup {[fn |-> "classify_frontend_backend_focus", m |-> m] : m \in FocusMetrics}
                \cup {[fn |-> "classify_pr_type", m |-> m] : m \in PullRequests}

        \* two submissions of the web form for one profile
        WebFormInputs ==
            {[fn |-> "generate_text_to_image", profile |-> p, submissions |-> <<a, b>>] :
                p \in GenProfiles, a \in CustomOptions, b \in CustomOptions}

        \* the profiles generate_image_prompt is given: the pre-defined one of
        \* build_user_profile, analysed ones, and analysed ones marked is_legend
        PromptInputs ==
            LET Marked == {PyDict([k \in {"is_legend"} |-> PyBool(TRUE)] @@ p.v) : p \in GenProfiles}
            IN  {[fn |-> "generate_image_prompt", profile |-> p, randomness |-> r] :
                    p \in {LegendProfile} \cup GenProfiles \cup Marked, r \in {0, 100, 150, 300}}

        \* analysed profiles by the repositories detect_high_profile_contributions
        \* saw and the focus classify_frontend_backend_focus found ("" for {})
        CategoryInputs ==
            LET Repo == [name : {"pytorch", "xgboost", "notes"}, stars : {0, 1000}, forks : {0}]
                Repos == UNION {[1..n -> Repo] : n \in 0..MaxRepos}
                Focus(label) == IF label = "" THEN EmptyDict
                                ELSE PyDict([primary_focus |-> PyStr(label), total_analyzed |-> PyInt(1)])
                Profile(repos, label) ==
                    PyDict([k \in {"high_profile_contributions", "frontend_backend_focus"} |->
                               IF k = "high_profile_contributions" THEN HighProfileAnalysis(repos) ELSE Focus(label)]
                           @@ BuiltProfile("alice", 1, TypicalUser).v)
            IN  {[fn |-> "generate_multi_style_prompts", profile |-> Profile(repos, label)] :
                    repos \in Repos, label \in {"", "Frontend", "Backend", "Full-stack", "Frontend-leaning", "Backend-leaning"}}
        \* a user; what user.get_repos() lists is met repository by repository
        ListingInputs == {[fn |-> "classify_frontend_backend_focus(user)"]}
        \* an analysed profile with randomness 0.0 and 0.15 (thousandths)
        StyleInputs ==
            {[fn |-> "get_weighted_style_elements", profile |-> BuiltProfile("alice", 1, TypicalUser),
              randomness |-> r] : r \in {0, 150}}
    IN  ScoringInputs \cup WebFormInputs \cup PromptInputs \cup CategoryInputs \cup ListingInputs
        \cup StyleInputs

\* one more evaluation of the function on the same arguments
Evaluated(results) ==
    /\ Len(fout) < MaxEvaluations
    /\ \E r \in results : fout' = Append(fout, r)
    /\ UNCHANGED <<fin, fnLocals, genVars, anaVars, runVars>>

PrimaryStyle ==
    /\ fin.fn = "get_contribution_style"
    /\ Evaluated(MaxByKey(style_scores(fin.m)))

CreatorType ==
    /\ fin.fn = "analyze_code_originality"
    /\ Evaluated({creator_type(fin.m)})

PrimaryFocus ==
    /\ fin.fn = "classify_frontend_backend_focus"
    /\ Evaluated({primary_focus(fin.m)})

ClassifyPrType ==
    /\ fin.fn = "classify_pr_type"
    /\ Evaluated({classify_pr_type(fin.m)})

\* the next submission of the form reaches generate_text_to_image
WebTextToImage ==
    /\ fin.fn = "generate_text_to_image"
    /\ Len(fout) < Len(fin.submissions)
    /\ fout' = Append(fout, UI_text_to_image_prompt(fin.profile, fin.submissions[Len(fout) + 1]))
    /\ UNCHANGED <<fin, fnLocals, genVars, anaVars, runVars>>

GenerateImagePrompt ==
    /\ fin.fn = "generate_image_prompt"
    /\ Evaluated({generate_image_prompt(fin.profile, fin.randomness)})

\* one iteration of "for repo in repos" of classify_frontend_backend_focus.
\* What the body meets in the repository: not updated in the window or empty,
\* no README, a request that raises, or the answer of the model;
\* weight = 1 + stargazers_count / 100
ClassifyRepository ==
    /\ fin.fn = "classify_frontend_backend_focus(user)"
    /\ fnLocals.pc = "for"
    /\ fnLocals.seen < MaxListed
    /\ \E kind \in {"stale", "no_readme", "request_raises", "Frontend", "Backend", "Full-stack", "Neither"},
          stars \in {0, 100} :
          LET taken == [fnLocals EXCEPT !.seen = @ + 1]
              asked == [taken EXCEPT !.requests = @ + 1]
              weight == 1 + (stars \div 100)
          IN  fnLocals' =
                 IF kind = "stale" THEN taken
                 ELSE IF fnLocals.total_analyzed >= AnalyzedLimit THEN [fnLocals EXCEPT !.pc = "return"]
                 ELSE IF kind = "no_readme" THEN taken
                 ELSE IF kind = "request_raises" THEN asked
                 ELSE [asked EXCEPT
                          !.frontend_score = IF kind = "Frontend" THEN @ + weight ELSE @,
                          !.backend_score = IF kind = "Backend" THEN @ + weight ELSE @,
                          !.fullstack_score = IF kind = "Full-stack" THEN @ + weight ELSE @,
                          !.total_analyzed = @ + 1]
    /\ UNCHANGED <<fin, fout, genVars, anaVars, runVars>>

\* the loop is over (break, or the listing has no further repository): {}
\* when nothing was analysed or scored, else the focus
ClassifyReturns ==
    /\ fin.fn = "classify_frontend_backend_focus(user)"
    /\ fnLocals.pc \in {"return", "for"}
    /\ fout' = Append(fout,
                      IF fnLocals.total_analyzed = 0 \/ primary_focus(fnLocals) = "" THEN EmptyDict
                      ELSE PyDict([primary_focus |-> PyStr(primary_focus(fnLocals)),
                                   frontend_score |-> PyInt(fnLocals.frontend_score),
                                   backend_score |-> PyInt(fnLocals.backend_score),
                                   fullstack_score |-> PyInt(fnLocals.fullstack_score),
                                   total_analyzed |-> PyInt(fnLocals.total_analyzed)]))
    /\ fnLocals' = [fnLocals EXCEPT !.pc = "done"]
    /\ UNCHANGED <<fin, genVars, anaVars, runVars>>

\* user.get_repos() or a repository's attributes raise: the outer except
\* returns {}
ClassifyListingRaises ==
    /\ fin.fn = "classify_frontend_backend_focus(user)"
    /\ fnLocals.pc = "for"
    /\ fout' = Append(fout, EmptyDict)
    /\ fnLocals' = [fnLocals EXCEPT !.pc = "done"]
    /\ UNCHANGED <<fin, genVars, anaVars, runVars>>

\* get_weighted_style_elements(profile, randomness), called a first and a
\* second time: the dict it returns
GetWeightedStyleElements ==
    /\ fin.fn = "get_weighted_style_elements"
    /\ ~get_weighted_style_elements(fin.profile, fin.randomness).raised
    /\ Len(fout) < 2
    /\ \E chosen \in StyleElementChoices(fin.profile, fin.randomness) :
          fout' = Append(fout, chosen @@ get_weighted_style_elements(fin.profile, fin.randomness).style)
    /\ UNCHANGED <<fin, fnLocals, genVars, anaVars, runVars>>

\* generate_multi_style_prompts(profile): the category and the four prompts
GenerateMultiStylePrompts ==
    /\ fin.fn = "generate_multi_style_prompts"
    /\ ~MultiStyleRaises(fin.profile)
    /\ Evaluated({[dev_category |-> classify_developer_category(fin.profile),
                   prompts |-> generate_multi_style_prompts(fin.profile, 4)]})

FnNext ==
    \/ GetWeightedStyleElements
    \/ ClassifyRepository
    \/ ClassifyReturns
    \/ ClassifyListingRaises
    \/ WebTextToImage
    \/ GenerateMultiStylePrompts
    \/ GenerateImagePrompt
    \/ PrimaryStyle
    \/ CreatorType
    \/ PrimaryFocus
    \/ ClassifyPrType

\* ----------------------------------------------------------- specifications

\* no function is under evaluation
FnPinned ==
    /\ fin = [fn |-> "none"]
    /\ fout = <<>>
    /\ fnLocals = NoLocals

\* no invocation is running
RunPinned ==
    /\ rpc = "idle"
    /\ run = NoRun
    /\ env = [token |-> FALSE, key |-> FALSE]
    /\ mem = PyNone
    /\ hist = NoHistory
    /\ runs = 0

\* the generation layer while nothing is generated
GenPinned ==
    /\ available = FALSE
    /\ i2iAvailable = FALSE
    /\ files = {}
    /\ attempts = {}
    /\ nextSid = NumGivenSids + 1
    /\ gpc = "idle"
    /\ todo = <<>>
    /\ gctx = NoContext
    /\ lastCall = NoCall
    /\ calls = 0

\* image generation on its own: no profile is built
InitGen == GenInit /\ AnaInit /\ RunPinned /\ FnPinned

SpecGen == InitGen /\ [][GenNext]_vars

\* profile building and the cache on their own
InitAnalyze == AnaInit /\ GenPinned /\ RunPinned /\ FnPinned

SpecAnalyze == InitAnalyze /\ [][AnaNext]_vars

\* the functions on their own: arguments are drawn, the function is evaluated
InitFn ==
    /\ fin \in FnInputs
    /\ fout = <<>>
    /\ fnLocals = IF fin.fn = "classify_frontend_backend_focus(user)" THEN FocusLocals ELSE NoLocals
    /\ GenPinned
    /\ AnaInit
    /\ RunPinned

SpecFn == InitFn /\ [][FnNext]_vars

\* one invocation after another on an empty cache directory
InitRun == RunPinned /\ GenPinned /\ AnaInit /\ FnPinned

SpecRun == InitRun /\ [][RunNext]_vars

\* ------------------------------------------------ claims on image generation

MultiOps == {"generate_multiple_images", "generate_style_variations",
             "generate_profile_based_portrait", "generate_multiple_transformations"}

\* C1: whenever GitToImageCLI.generate_image has returned False for a prompt,
\* the file <session_id>_<filename>_prompt.txt holding that prompt is in the
\* output directory.
C1_FallbackWritten ==
    (lastCall.op = "generate_image" /\ lastCall.ret = "False")
        => [name |-> PromptFileName(lastCall.sid, lastCall.filename), content |-> lastCall.prompt] \in files

\* a failed request of an available generator made GitToImageCLI.generate_image return False
C1_Witness ==
    /\ lastCall.op = "generate_image"
    /\ lastCall.ret = "False"
    /\ \E a \in attempts : a.op = "generate_image" /\ a.requested /\ ~a.success
    /\ \E f \in files : f.content = lastCall.prompt

\* C2: in the modes that issue several image requests in one session, every
\* request that was sent and failed has its prompt text in some file.
C2_FailedAttemptsPersisted ==
    \A a \in attempts : (a.op \in MultiOps /\ a.requested /\ ~a.success) => \E f \in files : f.content = a.prompt

\* ------------------------------------------ claims on analyze_user_profile

\* C4: for an existing user, a failing API request inside a single
\* sub-analysis never makes analyze_user_profile end with an exception.
C4_SubAnalysisFaultsCaught ==
    ~(anaResult.kind = "raised" /\ anaResult.at \in AnalysisKeys)

\* C5: after analyze_user_profile(username) has written and returned a
\* profile P, load_existing_profile(username) returns a value equal to P.
C5_CacheRoundTrip ==
    (apc = "loaded" /\ anaResult.kind = "profile" /\ loaded.username = anaUser)
        => loaded.profile = anaResult.profile

\* an analysed profile of an active user with commits was written and read back
C5_Witness ==
    /\ apc = "loaded"
    /\ anaResult.kind = "profile"
    /\ loaded.username = anaUser
    /\ ~IsLegend(anaUser)
    /\ anaData.daily # <<>>
    /\ loaded.profile.py = "dict"
    /\ disk[ProfilePath(anaUser)].kind = "json"

KeysImplyAnalysisRan(profile) ==
    \A k \in AnalysisKeys : HasKey(profile, k) => AnalysisFunction[k] \in executed

\* C8: in every profile written to the cache, an analysis key is present
\* only if its analysis function was executed during the build.
C8_KeysImplyAnalysisRan ==
    anaResult.kind = "profile" => KeysImplyAnalysisRan(anaResult.profile)

\* C8 (amended): the same, for every profile written to the cache for a user
\* name other than torvalds (in any letter case).
C8_KeysImplyAnalysisRan_NotLegend ==
    (anaResult.kind = "profile" /\ Lower(anaUser) # "torvalds")
        => KeysImplyAnalysisRan(anaResult.profile)

\* an analysed profile with all its keys was written after the nine calls
C8_Witness ==
    /\ anaResult.kind = "profile"
    /\ Lower(anaUser) # "torvalds"
    /\ disk[AnalyzerProfilePath(anaUser)] = JsonFile(JsonDump(anaResult.profile))
    /\ \A k \in AnalysisKeys : HasKey(anaResult.profile, k)
    /\ Cardinality(executed) = Len(AnalysisOrder)

ActivityLevels == {"Highly Active", "Consistent", "Casual", "Sporadic"}

TimesOfDay == {"Morning Coder", "Day Coder", "Evening Coder", "Night Owl"}

\* C9: every non-legend profile built for a user with at least one commit in
\* the window has a commit_cadence with a categorical activity_level and
\* time_of_day, and its style elements take the character traits from
\* ACTIVITY_CHARACTER_MAP and lighting, colour scheme and atmosphere from
\* TIME_STYLE_MAP.
C9_CadenceCategorical ==
    (anaResult.kind = "profile" /\ ~IsLegend(anaUser) /\ anaData.daily # <<>> /\ faults = 0)
        => LET cadence == anaResult.profile.v["commit_cadence"]
               style == get_weighted_style_elements(anaResult.profile, 0).style
           IN  /\ HasKey(cadence, "activity_level")
               /\ HasKey(cadence, "time_of_day")
               /\ cadence.v["activity_level"].v \in ActivityLevels
               /\ cadence.v["time_of_day"].v \in TimesOfDay
               /\ style.character_traits = ACTIVITY_CHARACTER_MAP[cadence.v["activity_level"].v]
               /\ style.lighting = TIME_STYLE_MAP[cadence.v["time_of_day"].v].lighting
               /\ style.color_scheme = TIME_STYLE_MAP[cadence.v["time_of_day"].v].color_scheme
               /\ style.atmosphere = TIME_STYLE_MAP[cadence.v["time_of_day"].v].atmosphere

\* ------------------------------------------------------ claims on the runs

\* C3: in the single-user branch of main, in interactive_mode and in the web
\* form, a run that has to build the profile while GITHUB_TOKEN or
\* GEMINI_API_KEY is unset never calls analyze_user_profile, requests no
\* image, and ends in failure.
C3_MissingCredentialsAbort ==
    (run.top \in {<<"single">>, <<"interactive">>, <<"web">>} /\ run.need_build /\ ~(env.token /\ env.key))
        => /\ ~run.analyzed
           /\ attempts = {}
           /\ lastCall = NoCall
           /\ gpc = "idle"
           /\ rpc \in {"credentials", "idle"}
           /\ rpc = "idle" => run.exit \in {"1", "error"}

\* --force-refresh over a cached profile, GEMINI_API_KEY unset: main has exited with 1
C3_Witness ==
    /\ rpc = "idle"
    /\ run.top = <<"single">>
    /\ run.force_refresh
    /\ run.need_build
    /\ env.token
    /\ ~env.key
    /\ disk[ProfilePath(run.username)].kind = "json"
    /\ run.exit = "1"

\* C6: once analyze_user_profile has succeeded for a user name, no run calls
\* it again for that name, as long as no run for that name has used
\* --force-refresh or declined the cached profile.
C6_AnalyzedOnce ==
    [][\A u \in Usernames : (hist[u].succeeded /\ ~hist'[u].refreshed) => hist'[u].calls = hist[u].calls]_vars

\* a second run has taken the profile from the cache its predecessor wrote
C6_Witness ==
    /\ runs = 2
    /\ run.top \in {<<"single">>, <<"batch">>, <<"web">>}
    /\ run.username \in Usernames
    /\ hist[run.username].succeeded
    /\ ~hist[run.username].refreshed
    /\ hist[run.username].calls = 1
    /\ ~run.analyzed
    /\ ~run.need_build
    /\ mem.py = "dict"
    /\ rpc \in {"display", "batch_generate"}

GenerationPositions ==
    {"dispatch", "menu", "preview", "standard", "multi_style", "multi_style_generation_mode",
     "style_interactive", "standard_generation_mode", "profile_picture", "multi_transformation",
     "generating", "web_generate", "batch_generate"}

\* C7: from the moment the profile is loaded or built, no step of a preview,
\* templating or generation mode changes the profile in memory, the profile
\* a mode method works on, or the cache directory.
C7_ProfileNotModified ==
    [][(rpc \in GenerationPositions) =>
          (mem' = mem /\ disk' = disk /\ (run.arg.py = "dict" => run'.arg = run.arg))]_vars

\* the style prompts of an analysed profile were made and a request has failed
C7_Witness ==
    /\ rpc = "generating"
    /\ gpc = "generate_style_variations"
    /\ mem.py = "dict"
    /\ ~get_weighted_style_elements(mem, 0).raised
    /\ disk[ProfilePath(run.username)] = JsonFile(JsonDump(mem))
    /\ \E a \in attempts : a.requested /\ ~a.success

Precedence == <<"preview", "multi_transformation", "profile_picture", "multi_style", "style_interactive", "standard">>

Requested(flags, profile, branch) ==
    CASE branch = "preview" -> flags.preview
      [] branch = "multi_transformation" -> flags.profile_picture /\ flags.multi_transformation
      [] branch = "profile_picture" -> flags.profile_picture
      [] branch = "multi_style" -> flags.multi_style
      [] branch = "style_interactive" -> flags.style_interactive
      [] OTHER -> ~flags.profile_only /\ HasKey(profile, "image_prompts")

\* C10: an invocation of main enters exactly one of batch_mode, the
\* single-user branch and interactive_mode; batch_mode enters no generation
\* branch, the menu of interactive_mode one at most, and the single-user
\* branch enters the first branch in the order preview, profile picture with
\* multi-transformation, profile picture, multi-style, style-interactive,
\* standard that the flags ask for, and no other.
C10_OneModeOneBranch ==
    run.entry = "main" =>
        /\ Len(run.top) = 1
        /\ run.top[1] \in {"batch", "single", "interactive"}
        /\ Len(run.branches) <= 1
        /\ run.top = <<"batch">> => run.branches = <<>>
        /\ (run.top = <<"single">> /\ run.args # NoArgs) =>
              LET asked == {i \in 1..Len(Precedence) : Requested(run.args, mem, Precedence[i])}
              IN  IF asked = {} THEN run.branches = <<>>
                  ELSE run.branches = <<Precedence[CHOOSE i \in asked : \A j \in asked : i <= j]>>

\* --profile-picture, --multi-style and --style-interactive together: the
\* profile-picture branch was entered
C10_Witness ==
    /\ run.top = <<"single">>
    /\ run.args # NoArgs
    /\ ~run.args.preview
    /\ run.args.profile_picture
    /\ ~run.args.multi_transformation
    /\ run.args.multi_style
    /\ run.args.style_interactive
    /\ run.branches = <<"profile_picture">>
    /\ rpc = "profile_picture"

\* --------------------------------------------------- claims on the functions

ScoringFunctions ==
    {"get_contribution_style", "analyze_code_originality", "classify_frontend_backend_focus",
     "classify_pr_type"}

C12_ProfileOnlyNoGeneration ==
    (run.top = <<"single">> /\ run.profile_only) => \A a \in attempts : ~a.requested

\* C13: in an invocation of main with --force-refresh, in the single-user
\* branch and in batch_mode, the profile a user name is displayed and
\* generated from was built by analyze_user_profile in this invocation.
C13_ForceRefreshAnalysesAnew ==
    (run.entry = "main" /\ run.force_given /\ run.top \in {<<"single">>, <<"batch">>}
        /\ rpc \in {"display", "batch_generate"}) => run.analyzed

\* C14: with the privacy check enabled (profile_picture_mode and
\* multi_transformation_mode with privacy_check, the web form's
\* Image-to-Image mode) get_github_profile_picture is called only after a
\* yes; after any other answer the mode has ended without a download and
\* without a request to the image-to-image generator.
C14_NoDownloadWithoutConsent ==
    run.privacy_check =>
        IF run.answer \in {"y", "yes", "checked"} THEN TRUE
        ELSE /\ ~run.downloaded
             /\ rpc = "idle"
             /\ run.exit \in {"1", "error"}
             /\ attempts = {}
             /\ lastCall = NoCall

\* --privacy-mode, the question answered with "n": profile_picture_mode has
\* returned False, nothing was downloaded
C14_Witness ==
    /\ run.modes = <<"profile_picture_mode">>
    /\ run.privacy_check
    /\ run.answer = "n"
    /\ ~run.downloaded
    /\ i2iAvailable
    /\ disk[ProfilePath(run.username)].kind = "json"
    /\ run.exit = "1"

\* ------------------------------------------------ claims on the style prompts

\* C15: a multi-style generation asked for N styles, 1 <= N <= 8, has
\* requested N images under N different style names when it returns
\* (total_styles = N).
C15_ExactlyNStyles ==
    (gpc = "idle" /\ lastCall.op = "generate_style_variations" /\ lastCall.ret \in {"True", "False"}
        /\ gctx.num_styles \in 1..8)
    => /\ gctx.total = gctx.num_styles
       /\ Cardinality({a.filename : a \in attempts}) = gctx.num_styles

\* ----------------------------------------------------- claims on batch_mode

\* C16: batch_mode holds one result per user name it has finished, in the
\* order of its argument, goes on to the next name after a failure of any
\* kind, and returns one result per name.
C16_OneResultPerUsername ==
    run.top = <<"batch">> =>
        LET current == IF rpc \in {"load", "credentials", "analyze", "batch_generate"} THEN 1 ELSE 0
        IN  /\ Len(run.results) + current + Len(run.batch) = Len(run.usernames)
            /\ \A i \in 1..Len(run.results) : run.results[i].username = run.usernames[i]
            /\ rpc \in {"load", "credentials", "analyze", "batch_generate", "batch_next", "idle"}
            /\ rpc = "idle" => Len(run.results) = Len(run.usernames) /\ run.exit \in {"0", "1"}

\* alice failed for missing keys, torvalds was taken from the cache and its
\* image requested; batch_mode has returned both results
C16_Witness ==
    /\ rpc = "idle"
    /\ run.top = <<"batch">>
    /\ run.usernames = <<"alice", "torvalds">>
    /\ Len(run.results) = 2
    /\ ~run.results[1].success
    /\ ~env.token
    /\ \E a \in attempts : a.filename = <<"batch", "torvalds", "main">>

\* ------------------------------------------------- claims on the web form

\* C17: two Text-to-Image submissions with "Custom options" for the same
\* profile that differ in the artistic style, the character archetype or
\* the background environment send different prompts.
C17_CustomOptionsDeterminePrompt ==
    (fin.fn = "generate_text_to_image" /\ Len(fout) = 2 /\ fin.submissions[1] # fin.submissions[2])
        => fout[1] # fout[2]

\* ------------------------------------------- claims on the legend's prompt

\* C18: for every profile with is_legend set, the pre-defined profile of
\* 'torvalds' included, generate_image_prompt returns generate_linus_prompt()
\* and does not raise.
C18_LegendGetsLinusPrompt ==
    (fin.fn = "generate_image_prompt" /\ Truthy(DictGet(fin.profile, "is_legend", PyNone)))
        => \A i \in 1..Len(fout) : fout[i] = [raised |-> FALSE, prompt |-> LinusPrompt]

\* ------------------------------------- claims on interactive style selection

\* C19: when interactive_style_selection_mode has ended for an analysed
\* profile and a selection with at least one valid style number, one image
\* generation was attempted per selected style, and the mode returned True
\* (exit status 0) exactly when one of them succeeded.
C19_OneImagePerSelectedStyle ==
    (rpc = "idle" /\ run.entry = "main" /\ run.selected # <<>>)
        => /\ Len(run.attempted) = Len(run.selected)
           /\ (run.exit = "0") = (\E i \in 1..Len(run.attempted) : run.attempted[i] = "True")

\* --------------------------------------- claims on the developer category

\* C20: a profile whose high_profile_contributions has legendary_count >= 1
\* is classified 'legendary' by classify_developer_category and every prompt
\* of multi-style generation is the legendary contributor's.
C20_LegendaryCountMeansLegendary ==
    (fin.fn = "generate_multi_style_prompts"
        /\ fin.profile.v["high_profile_contributions"].v["legendary_count"].v >= 1)
        => \A i \in 1..Len(fout) :
              /\ fout[i].dev_category = "legendary"
              /\ \A k \in 1..Len(fout[i].prompts) :
                    fout[i].prompts[k].prompt.v[1] = "create_legendary_contributor_prompt"

\* --------------------------------- claims on the classification requests

\* C21: classify_frontend_backend_focus issues at most 10 Gemini
\* classification requests in one run, whatever the repositories and
\* whichever requests fail.
C21_AtMostTenRequests ==
    fin.fn = "classify_frontend_backend_focus(user)" => fnLocals.requests <= AnalyzedLimit

\* ------------------------------------------- claims on the primary style

\* C22: the primary_style get_contribution_style returns is one of Solo
\* Creator, Collaborator, Architect and Refined Developer, and no other of
\* the four has a higher weighted score, for every input, a user without
\* repositories or without commits in the window included.
C22_PrimaryStyleIsMaximal ==
    fin.fn = "get_contribution_style"
        => \A i \in 1..Len(fout) :
              /\ fout[i] \in {"Solo Creator", "Collaborator", "Architect", "Refined Developer"}
              /\ LET scores == style_scores(fin.m)
                 IN  \E k \in 1..Len(scores) :
                        /\ scores[k][1] = fout[i]
                        /\ \A j \in 1..Len(scores) : scores[j][2] <= scores[k][2]

\* the style of a user with no repository in the window has been returned
C22_Witness ==
    /\ fin.fn = "get_contribution_style"
    /\ fin.m.total_repos = 0
    /\ fin.m.total_commits = 0
    /\ Len(fout) >= 1

\* ------------------------------------------- claims on the style elements

\* C23: with randomness = 0.0 two calls of get_weighted_style_elements on
\* the same profile return identical style elements.
C23_ZeroRandomnessReproducible ==
    (fin.fn = "get_weighted_style_elements" /\ fin.randomness = 0 /\ Len(fout) >= 2)
        => fout[1] = fout[2]

====
